---- MODULE Spec2Model ----
(***************************************************************************)
(* A model of the lenskit retrieval toolkit (heimgewebe/lenskit):          *)
(*   - core/chunker.py          Chunker.chunk_file / _finalize_chunk       *)
(*   - core/redactor.py         Redactor.redact                            *)
(*   - core/range_resolver.py   resolve_range_ref                          *)
(*   - retrieval/index_db.py    build_index / verify_index                 *)
(*   - retrieval/query_core.py  execute_query                              *)
(*   - cli/main.py, cli/cmd_index.py, cli/cmd_query.py, cli/cmd_eval.py    *)
(*                              main and the handlers of the commands      *)
(*   - cli/stale_check.py       check_stale_index                          *)
(* Each component has its own variables and its own specification; a       *)
(* specification leaves the other components' variables at their idle      *)
(* values.                                                                 *)
(***************************************************************************)
EXTENDS Integers, Sequences, FiniteSets, TLC

VARIABLES
    ch_pc,      \* chunker: "idle" | "ready" | "done"
    ch_in,      \* chunker: the arguments of the chunk_file call
    ch_out,     \* chunker: the list chunk_file returned
    fs_dump,    \* the dump_index file at dump_path
    fs_chunk,   \* the chunk stream file at chunk_path
    fs_sidecar, \* the sidecar file the dump_index names
    fs_locked,  \* whether the file system refuses to remove the file at db_path
    db,         \* the SQLite file at db_path, as committed
    b_pc,       \* build_index: "off" | "idle" | "ingest"
    bld,        \* build_index: its local variables and open transaction
    b_ret,      \* how the last build_index call ended: "none" | "returned" | an exception
    b_src,      \* history: the files the last returned build_index read
    b_old,      \* history: the file the last build_index call found at db_path
    v_ret,      \* what the last verify_index call returned: "none" | "true" | "false"
    q_pc,       \* query: "off" | "ready" | "ran" | "done"
    q_in,       \* query: the arguments of the execute_query call and the engine it ran on
    q_out,      \* query: how the call ended
    q_out2,     \* query: how the same call ended when made again
    q_tie,      \* the engine's order among rows the ORDER BY leaves equal
    rr_pc,      \* range resolver: "off" | "ready" | "done"
    rr_files,   \* the files of the directory the manifest is in
    rr_manifest, \* the manifest file at manifest_path
    rr_in,      \* range resolver: the ref of the resolve_range_ref call
    rr_schema,  \* what the schema file says of the ref: "absent" | "accepts" | "rejects"
    rr_out,     \* range resolver: how the call ended
    rd_pc,      \* redactor: "off" | "ready" | "once" | "twice"
    rd_in,      \* redactor: the text given to redact
    rd_out,     \* redactor: what redact returned for rd_in
    rd_out2,    \* redactor: what redact returned for the text of rd_out
    cli_pc,     \* command line: "off" | "ready" | the handler running | "build" | "eval_loop" | "exited"
    cli_in,     \* command line: the parsed arguments of the process
    cli_loc,    \* command line: the locals of run_eval
    cli_out,    \* command line: what the process wrote to stdout and stderr, and its exit code
    cli_run,    \* command line: how many processes were started
    st_pc,      \* stale check: "off" | "ready" | "done"
    st_in,      \* stale check: the name of the index file
    st_dir,     \* stale check: the manifests in the directory of the index file
    st_out,     \* stale check: how check_stale_index ended and what it wrote to stderr
    cs_pc,      \* chunking of a set of files: "off" | "ready" | "done"
    cs_in,      \* the files to chunk, in order, and the limits of the Chunker
    cs_k,       \* how many of the files chunk_file was called for
    cs_out,     \* the chunks returned so far, file after file
    qc_pc,      \* the three execute_query functions on one call: "off" | "ready" | "done"
    qc_in,      \* the arguments of the call, the engine and its order among equal rows
    qc_out,     \* how query_core, cmd_query and eval_core ended
    lg_file,    \* the log file of one job under logs_dir
    lg_appended, \* the lines given to append_log_line, in the order of the calls
    lg_last,    \* the last id the reader received, 0 before the first
    lg_got,     \* the (line, id) pairs the reader received, in order
    lg_probe,   \* a call of read_log_chunk with a last_line_id of any kind, and what it returned
    lg_op,      \* the last operation on the log: "none" | "append" | "poll" | "probe"
    js_pc,      \* cleanup_jobs on one store: "off" | "ready" | "done"
    js_jobs,    \* _jobs_cache: the jobs in the order they were added
    js_arts,    \* _artifacts_cache: the artifacts the store knows
    js_files,   \* the artifact files under the merges directory and the log files that exist
    js_locked,  \* whether the file system refuses to remove files
    js_saved,   \* what jobs.json and artifacts.json hold: ids of jobs and of artifacts
    js_call     \* the arguments of cleanup_jobs, and the store and files it found

queryVars   == <<q_pc, q_in, q_out, q_out2, q_tie>>
chunkerVars == <<ch_pc, ch_in, ch_out>>
rangeVars   == <<rr_pc, rr_files, rr_manifest, rr_in, rr_schema, rr_out>>
redactVars  == <<rd_pc, rd_in, rd_out, rd_out2>>
cliVars     == <<cli_pc, cli_in, cli_loc, cli_out, cli_run>>
staleVars   == <<st_pc, st_in, st_dir, st_out>>
chunkSetVars == <<cs_pc, cs_in, cs_k, cs_out>>
compareVars == <<qc_pc, qc_in, qc_out>>
logVars     == <<lg_file, lg_appended, lg_last, lg_got, lg_probe, lg_op>>
jobVars     == <<js_pc, js_jobs, js_arts, js_files, js_locked, js_saved, js_call>>
fsVars      == <<fs_dump, fs_chunk, fs_sidecar, fs_locked>>
buildVars   == <<db, b_pc, bld, b_ret, b_src, b_old>>
indexVars   == <<fs_dump, fs_chunk, fs_sidecar, fs_locked, db, b_pc, bld, b_ret, b_src, b_old, v_ret>>

vars == <<ch_pc, ch_in, ch_out,
          fs_dump, fs_chunk, fs_sidecar, fs_locked, db, b_pc, bld, b_ret, b_src, b_old, v_ret,
          q_pc, q_in, q_out, q_out2, q_tie,
          rr_pc, rr_files, rr_manifest, rr_in, rr_schema, rr_out,
          rd_pc, rd_in, rd_out, rd_out2,
          cli_pc, cli_in, cli_loc, cli_out, cli_run,
          st_pc, st_in, st_dir, st_out,
          cs_pc, cs_in, cs_k, cs_out,
          qc_pc, qc_in, qc_out,
          lg_file, lg_appended, lg_last, lg_got, lg_probe, lg_op,
          js_pc, js_jobs, js_arts, js_files, js_locked, js_saved, js_call>>

\* ------------------------------------------------------------------------
\* Shared helpers
\* ------------------------------------------------------------------------

Min(x, y) == IF x < y THEN x ELSE y

RECURSIVE SeqsUpTo(_, _)
\* all sequences over S of length 0..n
SeqsUpTo(S, n) ==
    IF n = 0 THEN {<<>>}
    ELSE LET shorter == SeqsUpTo(S, n - 1)
         IN  shorter \cup {Append(s, x) : s \in {t \in shorter : Len(t) = n - 1}, x \in S}

RECURSIVE Flatten(_)
\* "".join(seq of sequences)
Flatten(ss) == IF ss = <<>> THEN <<>> ELSE Head(ss) \o Flatten(Tail(ss))

\* hashlib.sha256(b).hexdigest(): collision-free, so a digest is identified
\* with the bytes it was taken of; the "ERROR" marker of index_db is a value
\* of the same shape that is no digest.
Sha256(bytes) == [alg |-> "sha256", of |-> bytes]

\* ------------------------------------------------------------------------
\* Text and UTF-8
\* ------------------------------------------------------------------------

\* The characters texts are made of: an ASCII letter, a two-byte letter
\* (U+00E9), line feed, carriage return and the three-byte LINE SEPARATOR
\* (U+2028), which str.splitlines also breaks at.
Chars == {"a", "e2", "LF", "CR", "LS"}

\* str.encode('utf-8') of one character
Utf8Char(c) ==
    CASE c = "a"  -> <<97>>
      [] c = "e2" -> <<195, 169>>
      [] c = "LF" -> <<10>>
      [] c = "CR" -> <<13>>
      [] c = "LS" -> <<226, 128, 168>>

RECURSIVE Utf8Str(_)
\* str.encode('utf-8')
Utf8Str(s) == IF s = <<>> THEN <<>> ELSE Utf8Char(Head(s)) \o Utf8Str(Tail(s))

IsLineBreak(c) == c \in {"LF", "CR", "LS"}

RECURSIVE SplitFrom(_, _, _, _)
SplitFrom(s, i, cur, acc) ==
    IF i > Len(s)
    THEN IF cur = <<>> THEN acc ELSE Append(acc, cur)
    ELSE IF s[i] = "CR" /\ i < Len(s) /\ s[i + 1] = "LF"
         THEN SplitFrom(s, i + 2, <<>>, Append(acc, cur \o <<"CR", "LF">>))
         ELSE IF IsLineBreak(s[i])
              THEN SplitFrom(s, i + 1, <<>>, Append(acc, Append(cur, s[i])))
              ELSE SplitFrom(s, i + 1, Append(cur, s[i]), acc)

\* content.splitlines(keepends=True)
SplitLines(content) == SplitFrom(content, 1, <<>>, <<>>)

\* ------------------------------------------------------------------------
\* core/chunker.py
\* ------------------------------------------------------------------------

\* hashlib.sha1(...).hexdigest() is 40 hexadecimal characters
SHA1_HEX_LEN == 40

\* hashlib.sha1(b).hexdigest(): the digest of b, with the number of
\* hexadecimal characters of it that are kept
Sha1Hex(input) == [alg |-> "sha1", of |-> input, hexlen |-> SHA1_HEX_LEN]

\* hexdigest()[:n]
Truncate(digest, n) == [digest EXCEPT !.hexlen = Min(digest.hexlen, n)]

\* str(n) for n >= 0, as a sequence of digit characters
RECURSIVE Str(_)
Str(n) ==
    LET d == <<"0", "1", "2", "3", "4", "5", "6", "7", "8", "9">>
    IN  IF n < 10 THEN <<d[n + 1]>> ELSE Append(Str(n \div 10), d[(n % 10) + 1])

\* len(line) in characters
LineChars(line) == Len(line)

\* len(line.encode('utf-8'))
LineBytes(line) == Len(Utf8Str(line))

\* Chunker._finalize_chunk: appends one Chunk to chunks
FinalizeChunk(chunks, file_id, lines, start_line, start_byte, file_path) ==
    LET content       == Flatten(lines)
        content_bytes == Utf8Str(content)
        size          == Len(content_bytes)
        sha256        == Sha256(content_bytes)
        path_key      == IF file_path # <<>> THEN file_path ELSE file_id
        chunk_hash_input == path_key \o Str(start_line) \o <<sha256>>
        chunk_id      == Sha1Hex(chunk_hash_input)
    IN  Append(chunks,
               [chunk_id          |-> chunk_id,
                file_id           |-> file_id,
                byte_offset_start |-> start_byte,
                byte_offset_end   |-> start_byte + size,
                line_start        |-> start_line,
                line_end          |-> start_line + Len(lines) - 1,
                content_sha256    |-> sha256,
                size_bytes        |-> size])

\* local variables that count lines from 0
ChunkLoopInitZeroBased(byte_offset_base) ==
    [chunks              |-> <<>>,
     current_chunk_lines |-> <<>>,
     current_chunk_size  |-> 0,
     chunk_start_line    |-> 0,
     chunk_start_byte    |-> byte_offset_base,
     current_byte_offset |-> byte_offset_base]

\* the local variables of chunk_file before the loop
ChunkLoopInit(byte_offset_base) ==
    [chunks              |-> <<>>,
     current_chunk_lines |-> <<>>,
     current_chunk_size  |-> 0,
     chunk_start_line    |-> 1,
     chunk_start_byte    |-> byte_offset_base,
     current_byte_offset |-> byte_offset_base]

\* an iteration that closes the chunk on the byte limit only
ChunkLoopBodyBytesOnly(in, st, j, line) ==
    LET line_bytes == LineBytes(line)
        flush == st.current_chunk_lines # <<>> /\ st.current_chunk_size + line_bytes > in.max_size
        st1 == IF flush
               THEN [st EXCEPT
                       !.chunks = FinalizeChunk(st.chunks, in.file_id, st.current_chunk_lines,
                                                st.chunk_start_line, st.chunk_start_byte,
                                                in.file_path),
                       !.chunk_start_line = j,
                       !.chunk_start_byte = st.current_byte_offset,
                       !.current_chunk_lines = <<>>,
                       !.current_chunk_size = 0]
               ELSE st
    IN  [st1 EXCEPT
           !.current_chunk_lines = Append(st1.current_chunk_lines, line),
           !.current_chunk_size  = st1.current_chunk_size + line_bytes,
           !.current_byte_offset = st1.current_byte_offset + line_bytes]

\* one iteration of the for loop of chunk_file, at the line with 1-based
\* index j (enumerate's i is j - 1, so i + 1 is j)
ChunkLoopBody(in, st, j, line) ==
    LET line_bytes == LineBytes(line)
        flush == /\ st.current_chunk_lines # <<>>
                 /\ \/ st.current_chunk_size + line_bytes > in.max_size
                    \/ Len(st.current_chunk_lines) >= in.max_lines
        st1 == IF flush
               THEN [st EXCEPT
                       !.chunks = FinalizeChunk(st.chunks, in.file_id, st.current_chunk_lines,
                                                st.chunk_start_line, st.chunk_start_byte,
                                                in.file_path),
                       !.chunk_start_line = j,
                       !.chunk_start_byte = st.current_byte_offset,
                       !.current_chunk_lines = <<>>,
                       !.current_chunk_size = 0]
               ELSE st
    IN  [st1 EXCEPT
           !.current_chunk_lines = Append(st1.current_chunk_lines, line),
           !.current_chunk_size  = st1.current_chunk_size + line_bytes,
           !.current_byte_offset = st1.current_byte_offset + line_bytes]

RECURSIVE ChunkLoop(_, _, _, _)
ChunkLoop(in, lines, j, st) ==
    IF j > Len(lines) THEN st
    ELSE ChunkLoop(in, lines, j + 1, ChunkLoopBody(in, st, j, lines[j]))

\* Chunker.chunk_file(file_id, content, byte_offset_base, file_path) of a
\* Chunker built with max_size and max_lines
ChunkFileResult(in) ==
    LET lines == SplitLines(in.content)
        st    == ChunkLoop(in, lines, 1, ChunkLoopInit(in.byte_offset_base))
    IN  IF st.current_chunk_lines # <<>>
        THEN FinalizeChunk(st.chunks, in.file_id, st.current_chunk_lines,
                           st.chunk_start_line, st.chunk_start_byte, in.file_path)
        ELSE st.chunks

\* Bounds of the chunker's inputs
MaxContentLen == 4
MaxChunkBytes == 3
MaxChunkLines == 2
MaxBase == 1

ChunkInputs ==
    [file_id          : {<<"F">>},
     content          : SeqsUpTo(Chars, MaxContentLen),
     byte_offset_base : {0, 5 * MaxBase},
     file_path        : {<<>>, <<"s">>, <<"o">>},
     max_size         : 1..MaxChunkBytes,
     max_lines        : 1..MaxChunkLines]

ChunkerIdle == ch_pc = "idle" /\ ch_in = <<>> /\ ch_out = <<>>

ChunkerInit ==
    /\ ch_pc = "ready"
    /\ ch_in \in ChunkInputs
    /\ ch_out = <<>>

\* a call of Chunker.chunk_file
ChunkFile ==
    /\ ch_pc = "ready"
    /\ ch_out' = ChunkFileResult(ch_in)
    /\ ch_pc' = "done"
    /\ UNCHANGED ch_in

\* Bound of the number of lines of a file of a set
MaxFileLines == 11

\* sets of two files with different paths, chunked by one Chunker; the files
\* are runs of empty lines, with or without a first line of text
ChunkSetInputs ==
    LET Paths == {<<"s">>, <<"s", "1">>, <<"o">>}
        Contents == {[k \in 1..n |-> "LF"] : n \in 0..MaxFileLines}
                    \cup {<<"a">> \o [k \in 1..n |-> "LF"] : n \in 1..2}
        FileOf(p, c) == [file_id |-> <<"F">> \o p, file_path |-> p, content |-> c]
    IN  {[files |-> <<FileOf(p[1], c1), FileOf(p[2], c2)>>, max_size |-> 8192, max_lines |-> ml] :
         p \in {q \in Paths \X Paths : q[1] # q[2]}, c1 \in Contents, c2 \in Contents, ml \in 1..MaxChunkLines}

ChunkSetIdle == cs_pc = "off" /\ cs_in = <<>> /\ cs_k = 0 /\ cs_out = <<>>

ChunkSetInit ==
    /\ cs_pc = "ready"
    /\ cs_in \in ChunkSetInputs
    /\ cs_k = 0
    /\ cs_out = <<>>

\* the call of Chunker.chunk_file for the next file of the set
ChunkNextFile ==
    /\ cs_pc = "ready"
    /\ LET f == cs_in.files[cs_k + 1]
       IN  cs_out' = cs_out \o ChunkFileResult([file_id |-> f.file_id, content |-> f.content,
                                                byte_offset_base |-> 0, file_path |-> f.file_path,
                                                max_size |-> cs_in.max_size, max_lines |-> cs_in.max_lines])
    /\ cs_k' = cs_k + 1
    /\ cs_pc' = IF cs_k + 1 = Len(cs_in.files) THEN "done" ELSE "ready"
    /\ UNCHANGED cs_in

\* ------------------------------------------------------------------------
\* Files, and the text of paths, filters and queries
\* ------------------------------------------------------------------------

\* a path that names no readable file, and a file holding data
Missing    == [present |-> FALSE, data |-> <<>>]
File(data) == [present |-> TRUE, data |-> data]

\* the value _compute_file_sha256 returns on OSError
ErrorSha == [alg |-> "ERROR", of |-> <<>>]

\* index_db._compute_file_sha256
ComputeFileSha256(file) == IF file.present THEN Sha256(file.data) ELSE ErrorSha

\* the code point of a character of a path, a repo id, a filter or a query
Code(c) ==
    CASE c = " "  -> 32  [] c = "%" -> 37   [] c = "(" -> 40  [] c = "-" -> 45
      [] c = "."  -> 46  [] c = "/" -> 47   [] c = "1" -> 49  [] c = "2" -> 50
      [] c = "A"  -> 65  [] c = "D" -> 68   [] c = "P" -> 80  [] c = "BSL" -> 92
      [] c = "_"  -> 95  [] c = "a" -> 97   [] c = "b" -> 98  [] c = "d" -> 100
      [] c = "k"  -> 107 [] c = "m" -> 109  [] c = "n" -> 110 [] c = "o" -> 111
      [] c = "p"  -> 112 [] c = "r" -> 114  [] c = "u" -> 117 [] c = "w" -> 119
      [] c = "x"  -> 120

UpperLetters == <<"A", "B", "C", "D", "E", "F", "G", "H", "I", "J", "K", "L", "M",
                  "N", "O", "P", "Q", "R", "S", "T", "U", "V", "W", "X", "Y", "Z">>
LowerLetters == <<"a", "b", "c", "d", "e", "f", "g", "h", "i", "j", "k", "l", "m",
                  "n", "o", "p", "q", "r", "s", "t", "u", "v", "w", "x", "y", "z">>

\* str.lower() of one character
LowerChar(c) ==
    IF \E i \in 1..26 : UpperLetters[i] = c
    THEN LowerLetters[CHOOSE i \in 1..26 : UpperLetters[i] = c]
    ELSE c

\* str.lower()
Lower(s) == [k \in 1..Len(s) |-> LowerChar(s[k])]

\* str.replace(old, new) for a single character old
ReplaceChar(s, old, new) == [k \in 1..Len(s) |-> IF s[k] = old THEN new ELSE s[k]]

IsAlnum(c) == c \in {"1", "2", "A", "D", "P", "a", "b", "d", "k", "m", "n", "o", "p", "r", "u", "w", "x"}

\* s < t in SQLite's BINARY collation (memcmp, the shorter first on a tie)
RECURSIVE TextLess(_, _)
TextLess(s, t) ==
    IF t = <<>> THEN FALSE
    ELSE IF s = <<>> THEN TRUE
    ELSE IF Code(Head(s)) # Code(Head(t)) THEN Code(Head(s)) < Code(Head(t))
    ELSE TextLess(Tail(s), Tail(t))

\* ------------------------------------------------------------------------
\* retrieval/index_db.py: the inputs
\* ------------------------------------------------------------------------

\* A line of the chunk stream: blank, not JSON, JSON that is no object, or a
\* JSON object. In an object an absent text key is the empty text (each
\* .get() below treats the two alike) and an absent number is -1.
EmptyLine     == [kind |-> "empty",        obj |-> <<>>]
InvalidLine   == [kind |-> "invalid_json", obj |-> <<>>]
NonObjectLine == [kind |-> "non_object",   obj |-> <<>>]
ObjectLine(o) == [kind |-> "object",       obj |-> <<o>>]

ChunkObj(id, repo, repo_id, path, layer, atype, sl, content) ==
    [chunk_id |-> id, repo |-> repo, repo_id |-> repo_id, path |-> path, layer |-> layer,
     artifact_type |-> atype, start_line |-> sl, end_line |-> sl, content |-> content]

R1 == <<"r", "1">>
R2 == <<"r", "2">>

\* the chunk objects streams are made of: number 4 is number 1 with another
\* content, number 7 a second chunk of the file of number 1, number 6 is
\* {"chunk_id": "c6"} with every other key absent, number 0 is {"repo": "r1"}
\* without chunk_id
Obj(n) ==
    CASE n = 1 -> ChunkObj(<<"c", "1">>, <<>>, R1, <<"a", "_", "b", ".", "p">>, "core", "code", 1, <<"d", " ", "m">>)
      [] n = 2 -> ChunkObj(<<"c", "2">>, <<>>, R1, <<"a", "x", "b", ".", "p">>, "test", "code", 1, <<"d", " ", "d", " ", "m">>)
      [] n = 3 -> ChunkObj(<<"c", "3">>, <<>>, R1, <<"A", "BSL", "d", ".", "m">>, "docs", "doc", 1, <<"x">>)
      [] n = 4 -> ChunkObj(<<"c", "4">>, <<>>, R1, <<"a", "_", "b", ".", "p">>, "core", "code", 1, <<"d">>)
      [] n = 5 -> ChunkObj(<<"c", "5">>, R2, <<>>, <<"a", "_", "b", ".", "p">>, "core", "code", 2, <<"m">>)
      [] n = 6 -> ChunkObj(<<"c", "6">>, <<>>, <<>>, <<>>, "", "", -1, <<>>)
      [] n = 7 -> ChunkObj(<<"c", "7">>, <<>>, R1, <<"a", "_", "b", ".", "p">>, "core", "code", 2, <<"d", " ", "m">>)
      [] n = 0 -> ChunkObj(<<>>, R1, <<>>, <<>>, "", "", -1, <<>>)

\* an entry of the sidecar's "files" list
FileObj(id, path) == [id |-> id, repo |-> R1, path |-> path, sha256 |-> Sha256(path), size_bytes |-> Len(path)]

\* the JSON of a dump_index: valid JSON or not, its run_id ("" when absent)
\* and whether artifacts.sidecar_json.path names the sidecar
DumpJson(v, valid, run_id, names_sidecar) ==
    [v |-> v, valid |-> valid, run_id |-> run_id, names_sidecar |-> names_sidecar]

\* three dump_index files: with run_id and sidecar, with neither, not JSON
Dump(v) ==
    CASE v = 1 -> File(<<DumpJson(1, TRUE, "run-1", TRUE)>>)
      [] v = 2 -> File(<<DumpJson(2, TRUE, "", FALSE)>>)
      [] v = 3 -> File(<<DumpJson(3, FALSE, "", FALSE)>>)

\* ------------------------------------------------------------------------
\* retrieval/index_db.py: the store
\* ------------------------------------------------------------------------

INDEX_SCHEMA_VERSION == "v1"

\* batch_size of build_index
BatchSize == 500

ZeroStats ==
    [total_lines |-> 0, empty_lines |-> 0, invalid_json_lines |-> 0,
     missing_chunk_id_lines |-> 0, ingested_chunks_count |-> 0, ingested_files_count |-> 0]

\* no file at db_path: no table, and index_meta with no row (created_at and
\* config_json are not read back by any code modelled here and carry no value)
NoDb == [exists |-> FALSE, tables |-> {}, chunks |-> <<>>, chunks_fts |-> <<>>,
         files |-> <<>>,
         meta |-> [keys |-> {}, schema_version |-> "", dump_sha256 |-> ErrorSha,
                   chunk_index_sha256 |-> ErrorSha, run_id |-> "", stats |-> ZeroStats]]

\* create_schema on a new file: the four tables, committed, without rows
EmptyDb == [NoDb EXCEPT !.exists = TRUE,
                        !.tables = {"index_meta", "chunks", "chunks_fts", "files"}]

\* build_index not running
NoBuild == [lines |-> <<>>, j |-> 0, stats |-> ZeroStats, batch_chunks |-> <<>>,
            batch_fts |-> <<>>, t_chunks |-> <<>>, t_fts |-> <<>>]

\* cursor.executemany(INSERT ...) into a table with primary key pk: the rows go
\* in one by one, and the first row whose key is taken raises IntegrityError
\* leaving the rows before it inserted
InsertMany(table, rows, pk) ==
    LET all == table \o rows
        taken == {i \in (Len(table) + 1)..Len(all) : \E k \in 1..(i - 1) : all[k][pk] = all[i][pk]}
        first == CHOOSE i \in taken : \A j \in taken : i <= j
    IN  IF taken = {} THEN [ok |-> TRUE, table |-> all]
        ELSE [ok |-> FALSE, table |-> SubSeq(all, 1, first - 1)]

\* the row of chunks build_index makes of a chunk object
ChunkRow(o) ==
    LET path == o.path
        \* a text value or, when it is empty or absent, the next choice
        OrElse(x, y) == IF x # <<>> THEN x ELSE y
        UnknownText == <<"u", "n", "k", "n", "o", "w", "n">>
    IN  [chunk_id      |-> o.chunk_id,
         repo_id       |-> OrElse(o.repo, OrElse(o.repo_id, UnknownText)),
         path          |-> path,
         path_norm     |-> ReplaceChar(Lower(path), "BSL", "/"),
         layer         |-> IF o.layer = "" THEN "unknown" ELSE o.layer,
         artifact_type |-> IF o.artifact_type = "" THEN "unknown" ELSE o.artifact_type,
         start_line    |-> IF o.start_line = -1 THEN 0 ELSE o.start_line,
         end_line      |-> IF o.end_line = -1 THEN 0 ELSE o.end_line]

\* path_norm with / . _ - replaced by spaces
PathTokens(path_norm) ==
    ReplaceChar(ReplaceChar(ReplaceChar(ReplaceChar(path_norm, "/", " "), ".", " "), "_", " "), "-", " ")

\* the row of chunks_fts build_index makes of a chunk object
FtsRow(o) ==
    [chunk_id |-> o.chunk_id, content |-> o.content,
     path_tokens |-> PathTokens(ChunkRow(o).path_norm)]

\* the two executemany calls of a flush; an IntegrityError of the first leaves
\* no row for the second
FlushBatch(st) ==
    LET ins == InsertMany(st.t_chunks, st.batch_chunks, "chunk_id")
    IN  IF ins.ok
        THEN [ok |-> TRUE,
              st |-> [st EXCEPT !.t_chunks = ins.table,
                                !.t_fts = st.t_fts \o st.batch_fts,
                                !.batch_chunks = <<>>,
                                !.batch_fts = <<>>]]
        ELSE [ok |-> FALSE, st |-> [st EXCEPT !.t_chunks = ins.table]]

Bump(stats, key) == [stats EXCEPT ![key] = stats[key] + 1]

\* one iteration of "for line in f": what it raises ("" when nothing) and the
\* local variables after it
IngestLine(st, line) ==
    LET counted == [st EXCEPT !.stats = Bump(st.stats, "total_lines"), !.j = st.j + 1]
    IN  CASE line.kind = "empty" ->
               [raises |-> "", st |-> [counted EXCEPT !.stats = Bump(counted.stats, "empty_lines")]]
          [] line.kind = "invalid_json" ->
               [raises |-> "", st |-> [counted EXCEPT !.stats = Bump(counted.stats, "invalid_json_lines")]]
          [] line.kind = "non_object" ->
               \* chunk.get on a list, a number, a string or None
               [raises |-> "AttributeError", st |-> counted]
          [] line.kind = "object" ->
               LET o == line.obj[1]
               IN  IF o.chunk_id = <<>>
                   THEN [raises |-> "",
                         st |-> [counted EXCEPT !.stats = Bump(counted.stats, "missing_chunk_id_lines")]]
                   ELSE LET added == [counted EXCEPT
                                        !.batch_chunks = Append(counted.batch_chunks, ChunkRow(o)),
                                        !.batch_fts = Append(counted.batch_fts, FtsRow(o)),
                                        !.stats = Bump(counted.stats, "ingested_chunks_count")]
                        IN  IF Len(added.batch_chunks) >= BatchSize
                            THEN LET fl == FlushBatch(added)
                                 IN  [raises |-> IF fl.ok THEN "" ELSE "IntegrityError", st |-> fl.st]
                            ELSE [raises |-> "", st |-> added]

\* the row of files build_index makes of a sidecar entry
FileRow(f) == [file_id |-> f.id, repo_id |-> f.repo, path |-> f.path,
               file_sha256 |-> f.sha256, size_bytes |-> f.size_bytes]

\* step 3 of build_index: the rows of files and ingested_files_count. Any
\* exception in it is caught and reported as a warning; the rows inserted
\* before it stay in the transaction.
IngestFiles(dumpf, sidecarf) ==
    LET named == /\ dumpf.present
                 /\ dumpf.data[1].valid
                 /\ dumpf.data[1].names_sidecar
        withId == IF named /\ sidecarf.present
                  THEN SelectSeq(sidecarf.data, LAMBDA f : f.id # <<>>)
                  ELSE <<>>
        rows == [k \in 1..Len(withId) |-> FileRow(withId[k])]
    IN  [files |-> InsertMany(<<>>, rows, "file_id").table, count |-> Len(rows)]

\* run_id as read from the dump_index
RunIdOf(dumpf) ==
    IF dumpf.present /\ dumpf.data[1].valid /\ dumpf.data[1].run_id # ""
    THEN dumpf.data[1].run_id
    ELSE "unknown"

\* a build_index that opens the file it finds: CREATE TABLE IF NOT EXISTS adds
\* the tables an existing file lacks and leaves its rows
OpenKept(d) ==
    IF d.exists THEN [d EXCEPT !.tables = d.tables \cup EmptyDb.tables] ELSE EmptyDb

\* a build_index that recreates the tables and keeps the rows of index_meta
OpenKeepingMeta(d) == IF d.exists THEN [EmptyDb EXCEPT !.meta = d.meta] ELSE EmptyDb

\* the file at db_path once build_index has unlinked what was there,
\* connected and run create_schema
OpenFresh(d) == EmptyDb

\* build_index up to the loop: an existing file is unlinked (RuntimeError
\* when the unlink fails with OSError), the schema is created and committed,
\* the counters are zeroed and the chunk stream is opened (FileNotFoundError
\* when it is missing)
BuildStart ==
    /\ b_pc = "idle"
    /\ b_old' = db
    /\ v_ret' = "none"
    /\ IF db.exists /\ fs_locked
       THEN /\ b_pc' = "idle"
            /\ bld' = NoBuild
            /\ b_ret' = "RuntimeError"
            /\ UNCHANGED db
       ELSE /\ db' = OpenFresh(db)
            /\ IF fs_chunk.present
               THEN /\ b_pc' = "ingest"
                    /\ bld' = [NoBuild EXCEPT !.lines = fs_chunk.data, !.j = 1,
                                              !.t_chunks = db'.chunks, !.t_fts = db'.chunks_fts]
                    /\ b_ret' = "none"
               ELSE /\ b_pc' = "idle"
                    /\ bld' = NoBuild
                    /\ b_ret' = "FileNotFoundError"
    /\ UNCHANGED <<fsVars, b_src>>

\* build_index: one line of the chunk stream
BuildLine ==
    /\ b_pc = "ingest"
    /\ bld.j <= Len(bld.lines)
    /\ LET r == IngestLine(bld, bld.lines[bld.j])
       IN  IF r.raises = ""
           THEN /\ bld' = r.st
                /\ UNCHANGED <<b_pc, b_ret>>
           ELSE \* the exception leaves build_index; the connection is dropped
                \* and its transaction rolled back
                /\ bld' = NoBuild
                /\ b_pc' = "idle"
                /\ b_ret' = r.raises
    /\ UNCHANGED <<fsVars, db, b_src, b_old, v_ret>>

\* build_index after the loop: the final batch, the files of the sidecar, the
\* metadata with both hashes and the counters, and the one commit
BuildFinish ==
    /\ b_pc = "ingest"
    /\ bld.j > Len(bld.lines)
    /\ LET fl == IF bld.batch_chunks # <<>> THEN FlushBatch(bld) ELSE [ok |-> TRUE, st |-> bld]
           fi == IngestFiles(fs_dump, fs_sidecar)
           stats == [fl.st.stats EXCEPT !.ingested_files_count = fi.count]
       IN  IF fl.ok
           THEN /\ db' = [db EXCEPT
                            !.chunks = fl.st.t_chunks,
                            !.chunks_fts = fl.st.t_fts,
                            !.files = InsertMany(db.files, fi.files, "file_id").table,
                            !.meta = [keys |-> {"schema_version", "dump_sha256", "chunk_index_sha256",
                                                "created_at", "run_id", "config_json",
                                                "ingest.total_lines", "ingest.empty_lines",
                                                "ingest.invalid_json_lines",
                                                "ingest.missing_chunk_id_lines",
                                                "ingest.ingested_chunks_count",
                                                "ingest.ingested_files_count"},
                                      schema_version |-> INDEX_SCHEMA_VERSION,
                                      dump_sha256 |-> ComputeFileSha256(fs_dump),
                                      chunk_index_sha256 |-> ComputeFileSha256(fs_chunk),
                                      run_id |-> RunIdOf(fs_dump),
                                      stats |-> stats]]
                /\ b_ret' = "returned"
                /\ b_src' = [dump |-> fs_dump, chunk |-> fs_chunk]
           ELSE /\ b_ret' = "IntegrityError"
                /\ UNCHANGED <<db, b_src>>
    /\ bld' = NoBuild
    /\ b_pc' = "idle"
    /\ UNCHANGED <<fsVars, b_old, v_ret>>

\* a verify_index that compares the dump hash only
VerifyDumpOnly(d, dumpf, chunkf) ==
    /\ d.exists
    /\ "dump_sha256" \in d.meta.keys
    /\ ComputeFileSha256(dumpf) = d.meta.dump_sha256

\* index_db.verify_index(db_path, dump_path, chunk_path)
VerifyIndexResult(d, dumpf, chunkf) ==
    IF ~d.exists THEN FALSE
    ELSE IF "index_meta" \notin d.tables THEN FALSE
    ELSE IF "dump_sha256" \notin d.meta.keys \/ "chunk_index_sha256" \notin d.meta.keys THEN FALSE
    ELSE IF ComputeFileSha256(dumpf) # d.meta.dump_sha256 THEN FALSE
    ELSE IF ComputeFileSha256(chunkf) # d.meta.chunk_index_sha256 THEN FALSE
    ELSE TRUE

\* a call of verify_index, between builds
VerifyIndex ==
    /\ b_pc = "idle"
    /\ v_ret' = IF VerifyIndexResult(db, fs_dump, fs_chunk) THEN "true" ELSE "false"
    /\ UNCHANGED <<fsVars, buildVars>>

\* ------------------------------------------------------------------------
\* The artifacts on disk change between runs
\* ------------------------------------------------------------------------

Dumps == {Missing, Dump(1), Dump(2), Dump(3)}

\* no sidecar, one with two files, one with an entry without id and an id
\* that comes twice
Sidecars ==
    LET F1 == FileObj(<<"f", "1">>, <<"a", "_", "b", ".", "p">>)
        F2 == FileObj(<<"f", "2">>, <<"a", "x", "b", ".", "p">>)
        FNoId == FileObj(<<>>, <<"x">>)
    IN  {Missing, File(<<F1, F2>>), File(<<F1, FNoId, F1>>)}

\* the chunk streams of the freshness check
SmallStreams ==
    {Missing, File(<<>>), File(<<ObjectLine(Obj(1))>>), File(<<ObjectLine(Obj(1)), EmptyLine>>),
     File(<<ObjectLine(Obj(1)), ObjectLine(Obj(2))>>), File(<<ObjectLine(Obj(1)), ObjectLine(Obj(1))>>),
     File(<<InvalidLine, NonObjectLine>>)}

\* the pipeline, or anyone, rewrites or removes the dump_index
WriteDump ==
    /\ b_pc = "idle"
    /\ \E d \in Dumps \ {fs_dump} : fs_dump' = d
    /\ v_ret' = "none"
    /\ UNCHANGED <<fs_chunk, fs_sidecar, fs_locked, buildVars>>

\* the chunk stream is rewritten or removed
WriteChunk ==
    /\ b_pc = "idle"
    /\ \E c \in SmallStreams \ {fs_chunk} : fs_chunk' = c
    /\ v_ret' = "none"
    /\ UNCHANGED <<fs_dump, fs_sidecar, fs_locked, buildVars>>

NoSource == [dump |-> Missing, chunk |-> Missing]

IndexIdle ==
    /\ fs_dump = Missing /\ fs_chunk = Missing /\ fs_sidecar = Missing /\ fs_locked = FALSE
    /\ db = NoDb /\ b_pc = "off" /\ bld = NoBuild /\ b_ret = "none"
    /\ b_src = NoSource /\ b_old = NoDb /\ v_ret = "none"

IndexInit ==
    /\ fs_dump \in Dumps
    /\ fs_chunk \in SmallStreams
    /\ fs_sidecar \in Sidecars
    /\ fs_locked = FALSE
    /\ db = NoDb /\ b_pc = "idle" /\ bld = NoBuild /\ b_ret = "none"
    /\ b_src = NoSource /\ b_old = NoDb /\ v_ret = "none"

\* builds and rebuilds in a directory that may refuse to remove the index
RebuildInit ==
    /\ fs_dump \in {Missing, Dump(1)}
    /\ fs_chunk \in SmallStreams
    /\ fs_sidecar \in Sidecars
    /\ fs_locked \in BOOLEAN
    /\ db = NoDb /\ b_pc = "idle" /\ bld = NoBuild /\ b_ret = "none"
    /\ b_src = NoSource /\ b_old = NoDb /\ v_ret = "none"

\* ------------------------------------------------------------------------
\* build_index on its own, over every kind of line and around the batch size
\* ------------------------------------------------------------------------

MaxStreamLen == 3

\* short streams of every kind of line, and streams of n distinct chunks with
\* an empty and an invalid line in front, n below, at and above the batch
\* size and above twice the batch size
IngestStreams ==
    LET LinePool == {EmptyLine, InvalidLine, NonObjectLine, ObjectLine(Obj(0)), ObjectLine(Obj(1)),
                     ObjectLine(Obj(2)), ObjectLine(Obj(6))}
        BigObj(i) == ChunkObj(<<"c">> \o Str(i), <<>>, R1, <<"a", ".", "p">>, "core", "code", i, <<"d">>)
        BigStream(n) == File(<<EmptyLine, InvalidLine>> \o [i \in 1..n |-> ObjectLine(BigObj(i))])
    IN  {File(s) : s \in SeqsUpTo(LinePool, MaxStreamLen)}
        \cup {BigStream(n) : n \in {BatchSize - 1, BatchSize, BatchSize + 1, 2 * BatchSize + 1}}

IngestInit ==
    /\ fs_dump = Dump(1)
    /\ fs_chunk \in IngestStreams
    /\ fs_sidecar \in Sidecars
    /\ fs_locked = FALSE
    /\ db = NoDb /\ b_pc = "idle" /\ bld = NoBuild /\ b_ret = "none"
    /\ b_src = NoSource /\ b_old = NoDb /\ v_ret = "none"


\* ------------------------------------------------------------------------
\* The SQLite engine under retrieval/query_core.py
\* ------------------------------------------------------------------------

\* s holds pat as a contiguous run
Contains(s, pat) ==
    \E i \in 0..(Len(s) - Len(pat)) : SubSeq(s, i + 1, i + Len(pat)) = pat

\* text LIKE pat in SQLite: % is any run of characters, _ is any one character,
\* every other character stands for itself without regard to ASCII case; there
\* is no escape character unless the statement names one
RECURSIVE LikeMatch(_, _)
LikeMatch(pat, text) ==
    IF pat = <<>> THEN text = <<>>
    ELSE IF Head(pat) = "%"
         THEN \E i \in 0..Len(text) : LikeMatch(Tail(pat), SubSeq(text, i + 1, Len(text)))
    ELSE IF text = <<>> THEN FALSE
    ELSE IF Head(pat) = "_" \/ LowerChar(Head(pat)) = LowerChar(Head(text))
         THEN LikeMatch(Tail(pat), Tail(text))
    ELSE FALSE

RECURSIVE TokensFrom(_, _, _, _)
TokensFrom(s, i, cur, acc) ==
    IF i > Len(s) THEN (IF cur = <<>> THEN acc ELSE Append(acc, cur))
    ELSE IF IsAlnum(s[i]) THEN TokensFrom(s, i + 1, Append(cur, LowerChar(s[i])), acc)
    ELSE TokensFrom(s, i + 1, <<>>, IF cur = <<>> THEN acc ELSE Append(acc, cur))

\* the tokens FTS5's default tokenizer (unicode61) makes of a text: runs of
\* letters and digits, folded to lower case
Tokens(s) == TokensFrom(s, 1, <<>>, <<>>)

\* the messages of the engine's errors and the texts execute_query looks for
\* in them, word by word
Words(message) ==
    CASE message = "no such module: fts5"        -> <<"no", "such", "module:", "fts5">>
      [] message = "no such table: chunks_fts"   -> <<"no", "such", "table:", "chunks_fts">>
      [] message = "no such table: chunks"       -> <<"no", "such", "table:", "chunks">>
      [] message = "no such function: bm25"      -> <<"no", "such", "function:", "bm25">>
      [] message = "unable to use function bm25" -> <<"unable", "to", "use", "function", "bm25">>
      [] message = "syntax error"                -> <<"syntax", "error">>
      [] message = "fts5: syntax error near ..." -> <<"fts5:", "syntax", "error", "near", "...">>
      [] message = "no such column: ..."         -> <<"no", "such", "column:", "...">>

\* what FTS5 makes of the right-hand side of MATCH, for query texts of
\* letters, digits, spaces and the characters ( . - : barewords are terms
\* joined by an implicit AND; a text without a term, a parenthesis that is not
\* closed and a dot are syntax errors; word-word names a column
FtsParse(q) ==
    IF \E i \in 1..Len(q) : q[i] \in {"(", "."}
    THEN [ok |-> FALSE, error |-> Words("fts5: syntax error near ..."), terms |-> <<>>]
    ELSE IF \E i \in 1..Len(q) : q[i] = "-"
    THEN [ok |-> FALSE, error |-> Words("no such column: ..."), terms |-> <<>>]
    ELSE IF Tokens(q) = <<>>
    THEN [ok |-> FALSE, error |-> Words("fts5: syntax error near ..."), terms |-> <<>>]
    ELSE [ok |-> TRUE, error |-> <<>>, terms |-> Tokens(q)]

\* the tokens of the indexed columns of a row of chunks_fts (chunk_id is
\* UNINDEXED)
FtsTokens(frow) == Tokens(frow.content) \o Tokens(frow.path_tokens)

\* chunks_fts MATCH: every term occurs in an indexed column
FtsMatch(frow, terms) ==
    \A t \in 1..Len(terms) : \E j \in 1..Len(FtsTokens(frow)) : FtsTokens(frow)[j] = terms[t]

\* bm25(chunks_fts), lower is better, reduced to what the ordering needs: the
\* more occurrences of the terms, the lower; rows of equal content and path
\* score alike
Bm25(frow, terms) ==
    0 - Cardinality({<<t, j>> \in (1..Len(terms)) \X (1..Len(FtsTokens(frow))) :
                        FtsTokens(frow)[j] = terms[t]})

\* one clause of the WHERE part against a row of chunks
ClauseHolds(row, clause) ==
    IF clause.op = "=" THEN row[clause.col] = clause.arg
    ELSE LikeMatch(clause.arg, row[clause.col])

RowPasses(row, clauses) == \A c \in 1..Len(clauses) : ClauseHolds(row, clauses[c])

\* r comes before s under the ORDER BY columns
RECURSIVE KeyLess(_, _, _)
KeyLess(r, s, cols) ==
    IF cols = <<>> THEN FALSE
    ELSE LET c == Head(cols)
             lt == IF c \in {"score", "start_line"} THEN r[c] < s[c] ELSE TextLess(r[c], s[c])
         IN  \/ lt
             \/ r[c] = s[c] /\ KeyLess(r, s, Tail(cols))

\* ORDER BY cols: rows that are equal in every column come out in an order the
\* statement does not fix; the engine fixes it by rowid, one way or the other
OrderBy(rows, cols, tie) ==
    LET Before(r, s) ==
            \/ KeyLess(r, s, cols)
            \/ /\ ~KeyLess(s, r, cols)
               /\ IF tie = "rowid_asc" THEN r.rowid < s.rowid ELSE r.rowid > s.rowid
    IN  [i \in 1..Len(rows) |->
            CHOOSE r \in {rows[k] : k \in 1..Len(rows)} :
                Cardinality({k \in 1..Len(rows) : Before(rows[k], r)}) = i - 1]

\* LIMIT k: a negative k is no limit
Limit(rows, k) == IF k < 0 THEN rows ELSE SubSeq(rows, 1, Min(k, Len(rows)))

\* the rows of FROM chunks c, or of FROM chunks_fts JOIN chunks c ON
\* c.chunk_id = chunks_fts.chunk_id WHERE chunks_fts MATCH terms, each with
\* its score and the rowid of its chunks row
Candidates(d, fts, terms) ==
    LET n == Len(d.chunks)
        metaRows == [k \in 1..n |-> [row |-> d.chunks[k], rowid |-> k, score |-> 0]]
        joined == {<<f, k>> \in (1..Len(d.chunks_fts)) \X (1..n) :
                      /\ d.chunks[k].chunk_id = d.chunks_fts[f].chunk_id
                      /\ FtsMatch(d.chunks_fts[f], terms)}
        ftsRows == [k \in 1..n |->
                      IF \E f \in 1..Len(d.chunks_fts) : <<f, k>> \in joined
                      THEN LET f == CHOOSE f \in 1..Len(d.chunks_fts) : <<f, k>> \in joined
                           IN  <<[row |-> d.chunks[k], rowid |-> k,
                                  score |-> Bm25(d.chunks_fts[f], terms)]>>
                      ELSE <<>>]
    IN  IF fts THEN Flatten(ftsRows) ELSE metaRows

\* a prepared statement of execute_query run by the engine in environment env
\* ("ok", "no_fts5": built without the FTS5 module, "no_bm25": FTS5 without
\* its bm25 function): the rows, or the message of the sqlite3.Error
EngineExecute(d, env, stmt, tie) ==
    LET fail(msg) == [ok |-> FALSE, error |-> msg, rows |-> <<>>]
        parsed == FtsParse(stmt.match)
        cand == Candidates(d, stmt.fts, parsed.terms)
        flat == [k \in 1..Len(cand) |->
                   [chunk_id |-> cand[k].row.chunk_id, repo_id |-> cand[k].row.repo_id,
                    path |-> cand[k].row.path, path_norm |-> cand[k].row.path_norm,
                    layer |-> cand[k].row.layer, artifact_type |-> cand[k].row.artifact_type,
                    start_line |-> cand[k].row.start_line, end_line |-> cand[k].row.end_line,
                    score |-> cand[k].score, rowid |-> cand[k].rowid]]
        kept == SelectSeq(flat, LAMBDA r : RowPasses(r, stmt.where))
    IN  IF stmt.fts /\ "chunks_fts" \notin d.tables THEN fail(Words("no such table: chunks_fts"))
        ELSE IF stmt.fts /\ env = "no_fts5" THEN fail(Words("no such module: fts5"))
        ELSE IF "chunks" \notin d.tables THEN fail(Words("no such table: chunks"))
        ELSE IF stmt.fts /\ env = "no_bm25" /\ stmt.scoring = "bm25(chunks_fts)"
             THEN fail(Words("no such function: bm25"))
        ELSE IF stmt.fts /\ ~parsed.ok THEN fail(parsed.error)
        ELSE [ok |-> TRUE, error |-> <<>>, rows |-> Limit(OrderBy(kept, stmt.order, tie), stmt.limit)]

\* ------------------------------------------------------------------------
\* retrieval/query_core.py
\* ------------------------------------------------------------------------

\* query_text.replace('"', '""')
CleanQuery(q) == Flatten([i \in 1..Len(q) |-> IF q[i] = "QUOTE" THEN <<"QUOTE", "QUOTE">> ELSE <<q[i]>>])

\* a filters dict; a key that is absent, None or empty holds <<>> or ""
Filters(repo, path, ext, layer, atype) ==
    [repo |-> repo, path |-> path, ext |-> ext, layer |-> layer, artifact_type |-> atype]

\* the clauses execute_query appends for the filters, in its order
WhereClauses(f) ==
    LET ext == IF f.ext # <<>> /\ Head(f.ext) # "." THEN <<".">> \o f.ext ELSE f.ext
    IN  (IF f.repo # <<>> THEN <<[col |-> "repo_id", op |-> "=", arg |-> f.repo]>> ELSE <<>>)
        \o (IF f.path # <<>>
            THEN <<[col |-> "path_norm", op |-> "LIKE", arg |-> <<"%">> \o Lower(f.path) \o <<"%">>]>>
            ELSE <<>>)
        \o (IF f.ext # <<>>
            THEN <<[col |-> "path_norm", op |-> "LIKE", arg |-> <<"%">> \o Lower(ext)]>>
            ELSE <<>>)
        \o (IF f.layer # "" THEN <<[col |-> "layer", op |-> "=", arg |-> f.layer]>> ELSE <<>>)
        \o (IF f.artifact_type # ""
            THEN <<[col |-> "artifact_type", op |-> "=", arg |-> f.artifact_type]>>
            ELSE <<>>)

\* the ORDER BY of cli/cmd_query.py
ScoreOnlyOrder == <<"score">>

FtsOrder  == <<"score", "repo_id", "path", "start_line">>
MetaOrder == <<"repo_id", "path", "start_line">>

\* the statement of cli/cmd_query.py when its probe finds no bm25: the
\* score is the rank column
StatementWithRank(in) ==
    LET fts == in.text # <<>>
    IN  [fts     |-> fts,
         match   |-> IF fts THEN CleanQuery(in.text) ELSE <<>>,
         scoring |-> IF fts THEN "rank" ELSE "0",
         where   |-> WhereClauses(in.filters),
         order   |-> IF fts THEN ScoreOnlyOrder ELSE <<>>,
         limit   |-> in.k]

\* the statement execute_query builds
Statement(in) ==
    LET fts == in.text # <<>>
    IN  [fts     |-> fts,
         match   |-> IF fts THEN CleanQuery(in.text) ELSE <<>>,
         scoring |-> IF fts THEN "bm25(chunks_fts)" ELSE "0",
         where   |-> WhereClauses(in.filters),
         order   |-> IF fts THEN FtsOrder ELSE MetaOrder,
         limit   |-> in.k]

\* a classification that knows the engine's syntax errors as database errors only
ClassifyWithoutSyntax(msg) ==
    IF Contains(msg, Words("no such module: fts5")) THEN "SQLite FTS5 extension missing in this environment."
    ELSE IF Contains(msg, Words("no such table: chunks_fts"))
         THEN "FTS table missing; likely old or corrupt index. Reindex required."
    ELSE IF Contains(msg, Words("no such function: bm25")) \/ Contains(msg, Words("unable to use function bm25"))
         THEN "SQLite FTS5 auxiliary function 'bm25' missing."
    ELSE "Database error executing query"

\* the RuntimeError execute_query raises for a sqlite3.Error, by the words of
\* its message (which the engine writes in lower case)
ClassifyError(msg) ==
    IF Contains(msg, Words("no such module: fts5")) THEN "SQLite FTS5 extension missing in this environment."
    ELSE IF Contains(msg, Words("no such table: chunks_fts"))
         THEN "FTS table missing; likely old or corrupt index. Reindex required."
    ELSE IF Contains(msg, Words("no such function: bm25")) \/ Contains(msg, Words("unable to use function bm25"))
         THEN "SQLite FTS5 auxiliary function 'bm25' missing."
    ELSE IF Contains(msg, Words("syntax error")) THEN "FTS syntax error in query"
    ELSE "Database error executing query"

\* one hit of the result
Hit(r, in) ==
    LET fts == in.text # <<>>
        FilterKeys == <<"repo", "path", "ext", "layer", "artifact_type">>
        \* "if v" for the value of a filter
        Given(f, key) == IF key \in {"layer", "artifact_type"} THEN f[key] # "" ELSE f[key] # <<>>
    IN  [chunk_id |-> r.chunk_id, repo_id |-> r.repo_id, path |-> r.path,
         range |-> <<r.start_line, r.end_line>>, score |-> r.score,
         layer |-> r.layer, type |-> r.artifact_type,
         why |-> [matched_terms |-> IF fts THEN <<in.text>> ELSE <<"metadata">>,
                  filter_pass |-> SelectSeq(FilterKeys, LAMBDA key : Given(in.filters, key)),
                  rank_features |-> IF fts THEN [name |-> "bm25", value |-> r.score]
                                    ELSE [name |-> "metadata", value |-> 0]]]

\* execute_query(index_path, query_text, k, filters): what it returns, or the
\* exception that leaves it
ExecuteQueryResult(d, env, tie, in) ==
    LET fts == in.text # <<>>
        res == EngineExecute(d, env, Statement(in), tie)
    IN  IF res.ok
        THEN [kind |-> "returned", exc |-> "", message |-> "",
              out |-> <<[query |-> in.text, k |-> in.k,
                         engine |-> IF fts THEN "fts5" ELSE "metadata",
                         query_mode |-> IF fts THEN "fts" ELSE "metadata",
                         applied_filters |-> in.filters,
                         count |-> Len(res.rows),
                         results |-> [i \in 1..Len(res.rows) |-> Hit(res.rows[i], in)],
                         fts_query |-> IF fts THEN <<CleanQuery(in.text)>> ELSE <<>>]>>]
        ELSE [kind |-> "raised", exc |-> "RuntimeError", message |-> ClassifyError(res.error),
              out |-> <<>>]

\* sqlite3.connect(path) followed by a statement: a file that is not there
\* is created, empty
Connect(d) == IF d.exists THEN d ELSE [NoDb EXCEPT !.exists = TRUE]

\* an index file written by a build that knew no full-text table
OldDb == [NoDb EXCEPT !.exists = TRUE, !.tables = {"index_meta", "chunks", "files"}]

\* ------------------------------------------------------------------------
\* Queries against what build_index made
\* ------------------------------------------------------------------------

MaxK == 3

RECURSIVE NoRepeat(_)
NoRepeat(s) == s = <<>> \/ ((\A k \in 2..Len(s) : s[k] # s[1]) /\ NoRepeat(Tail(s)))

QueryStreams ==
    {File([k \in 1..Len(s) |-> ObjectLine(s[k])]) : s \in {t \in SeqsUpTo({Obj(1), Obj(2), Obj(3), Obj(5), Obj(7)}, MaxStreamLen) : NoRepeat(t)}}
    \cup {File(<<ObjectLine(Obj(1)), ObjectLine(Obj(4))>>), File(<<ObjectLine(Obj(4)), ObjectLine(Obj(1))>>),
          File(<<ObjectLine(Obj(6)), ObjectLine(Obj(3)), EmptyLine>>), Missing}

QueryTexts ==
    {<<>>, <<"d">>, <<"D">>, <<"d", " ", "m">>, <<"b">>, <<" ">>, <<"(">>, <<"a", "-", "b">>}

FilterSets ==
    {Filters(<<>>, <<>>, <<>>, "", ""),
     Filters(R1, <<>>, <<>>, "", ""),
     Filters(<<"R", "1">>, <<>>, <<>>, "", ""),
     Filters(<<>>, <<"a", "_", "b">>, <<>>, "", ""),
     Filters(<<>>, <<"A", "x">>, <<>>, "", ""),
     Filters(<<>>, <<"%">>, <<>>, "", ""),
     Filters(<<>>, <<"a", "/", "d">>, <<>>, "", ""),
     Filters(<<>>, <<>>, <<"p">>, "", ""),
     Filters(<<>>, <<>>, <<".", "P">>, "", ""),
     Filters(<<>>, <<>>, <<"b", ".", "p">>, "", ""),
     Filters(<<>>, <<>>, <<>>, "core", ""),
     Filters(<<>>, <<>>, <<>>, "", "doc"),
     Filters(R2, <<"b", ".">>, <<"p">>, "core", "code")}

QueryInputs == [text : QueryTexts, k : {0, 1, MaxK}, filters : FilterSets,
     env : {"ok", "no_fts5", "no_bm25"}]

QueryIdle == q_pc = "off" /\ q_in = <<>> /\ q_out = <<>> /\ q_out2 = <<>> /\ q_tie = "rowid_asc"

QueryInit ==
    /\ fs_dump = Dump(2) /\ fs_sidecar = Missing /\ fs_locked = FALSE
    /\ fs_chunk \in QueryStreams
    /\ db \in {NoDb, OldDb}
    /\ db = OldDb => fs_chunk = Missing
    /\ b_pc = "idle" /\ bld = NoBuild /\ b_ret = "none" /\ b_src = NoSource /\ b_old = NoDb /\ v_ret = "none"
    /\ q_pc = "ready" /\ q_in = <<>> /\ q_out = <<>> /\ q_out2 = <<>>
    /\ q_tie \in {"rowid_asc", "rowid_desc"}

\* a call of execute_query, while no build is running
Query ==
    /\ b_pc = "idle" /\ q_pc = "ready"
    /\ \E in \in QueryInputs :
          /\ q_in' = in
          /\ q_out' = ExecuteQueryResult(Connect(db), in.env, q_tie, in)
    /\ db' = Connect(db)
    /\ q_pc' = "ran"
    /\ UNCHANGED <<fsVars, b_pc, bld, b_ret, b_src, b_old, v_ret, q_out2, q_tie>>

\* the same call once more
Requery ==
    /\ q_pc = "ran"
    /\ q_out2' = ExecuteQueryResult(Connect(db), q_in.env, q_tie, q_in)
    /\ db' = Connect(db)
    /\ q_pc' = "done"
    /\ UNCHANGED <<fsVars, b_pc, bld, b_ret, b_src, b_old, v_ret, q_in, q_out, q_tie>>

\* ------------------------------------------------------------------------
\* core/range_resolver.py
\* ------------------------------------------------------------------------

\* the values of core.constants.ArtifactRole
ArtifactRoles ==
    {"canonical_md", "index_sidecar_json", "chunk_index_jsonl", "dump_index_json", "sqlite_index",
     "retrieval_eval_json", "derived_manifest_json", "delta_json", "architecture_summary"}

\* bytes.decode("utf-8"): the text, or a UnicodeDecodeError. n is how many
\* bytes the sequence that starts with the byte at i has, 0 when no sequence
\* starts with it; the bytes after the first are continuation bytes
RECURSIVE Utf8DecodeFrom(_, _, _)
Utf8DecodeFrom(bs, i, acc) ==
    LET b == bs[i]
        n == IF b < 128 THEN 1
             ELSE IF b >= 194 /\ b <= 223 THEN 2
             ELSE IF b >= 224 /\ b <= 239 THEN 3
             ELSE IF b >= 240 /\ b <= 244 THEN 4
             ELSE 0
        IsContinuation(c) == c >= 128 /\ c <= 191
        CharOfUtf8(cs) == CHOOSE c \in Chars : Utf8Char(c) = cs
    IN  IF i > Len(bs) THEN [ok |-> TRUE, text |-> acc]
        ELSE IF \/ n = 0
                \/ i + n - 1 > Len(bs)
                \/ \E j \in (i + 1)..(i + n - 1) : ~IsContinuation(bs[j])
        THEN [ok |-> FALSE, text |-> <<>>]
        ELSE Utf8DecodeFrom(bs, i + n, Append(acc, CharOfUtf8(SubSeq(bs, i, i + n - 1))))

Utf8Decode(bs) == Utf8DecodeFrom(bs, 1, <<>>)

\* a read that takes end_byte bytes instead of end_byte - start_byte
ReadFromStart(data, start_byte, end_byte) ==
    SubSeq(data, start_byte + 1, Min(start_byte + end_byte, Len(data)))

\* a bounds check that also turns down the empty span
OutOfBoundsOrEmpty(start_byte, end_byte, file_size) ==
    start_byte < 0 \/ end_byte > file_size \/ start_byte >= end_byte

\* start_byte < 0 or end_byte > file_size or start_byte > end_byte
OutOfBounds(start_byte, end_byte, file_size) ==
    start_byte < 0 \/ end_byte > file_size \/ start_byte > end_byte

\* f.seek(start_byte); f.read(end_byte - start_byte)
ReadSpan(data, start_byte, end_byte) ==
    SubSeq(data, start_byte + 1, Min(end_byte, Len(data)))

\* an artifact entry of a manifest: its key (dump-index shape), its "role"
\* and its "path" ("" when the entry has none)
Artifact(key, role, path) == [key |-> key, role |-> role, path |-> path]

\* a manifest file: the shape it declares ("bundle": kind is
\* repolens.bundle.manifest, "dump_index": contract is dump-index, "other"),
\* its artifacts in file order, run_id and generator.config_sha256 ("" when
\* absent)
Manifest(format, artifacts, run_id, config_sha256) ==
    [exists |-> TRUE, format |-> format, artifacts |-> artifacts, run_id |-> run_id,
     config_sha256 |-> config_sha256]

NoManifest == [exists |-> FALSE, format |-> "other", artifacts |-> <<>>, run_id |-> "",
               config_sha256 |-> ""]

\* the path the manifest gives for a role, "" when it gives none
TargetPath(m, role) ==
    LET withRole == SelectSeq(m.artifacts, LAMBDA a : a.role = role)
        withKey  == SelectSeq(m.artifacts, LAMBDA a : a.key = role)
    IN  IF m.format = "bundle"
        THEN (IF withRole # <<>> THEN withRole[1].path ELSE "")
        ELSE IF withKey # <<>> THEN withKey[1].path
        ELSE IF withRole # <<>> THEN withRole[1].path
        ELSE ""

\* resolve_range_ref(manifest_path, ref): what it returns, or the exception
\* that leaves it. schema is what validating ref against
\* range-ref.v1.schema.json gives: "absent" (no schema file), "accepts" or
\* "rejects".
ResolveRangeRef(m, files, ref, schema) ==
    LET raise(exc, message) == [kind |-> "raised", exc |-> exc, message |-> message, value |-> <<>>]
        path == TargetPath(m, ref.artifact_role)
        data == files[path].data
        content_bytes == ReadSpan(data, ref.start_byte[1], ref.end_byte[1])
        actual_sha256 == Sha256(content_bytes)
        decoded == Utf8Decode(content_bytes)
    IN  IF ~m.exists THEN raise("FileNotFoundError", "Manifest not found")
        ELSE IF schema = "rejects" THEN raise("ValueError", "range_ref failed schema")
        ELSE IF ref.artifact_role \notin ArtifactRoles THEN raise("ValueError", "Unknown artifact_role")
        ELSE IF m.format \notin {"bundle", "dump_index"}
             THEN raise("ValueError", "Unsupported manifest format")
        ELSE IF path = "" THEN raise("ValueError", "Artifact with role not found in manifest")
        ELSE IF ref.file_path # "" /\ ref.file_path # path THEN raise("ValueError", "file_path mismatch")
        ELSE IF ~files[path].present
             THEN raise("FileNotFoundError", "Resolved artifact file not found")
        ELSE IF ref.start_byte = <<>> \/ ref.end_byte = <<>>
             THEN raise("ValueError", "range_ref must include 'start_byte' and 'end_byte'")
        ELSE IF OutOfBounds(ref.start_byte[1], ref.end_byte[1], Len(data))
             THEN raise("ValueError", "Range is out of bounds")
        ELSE IF ref.content_sha256 # <<>> /\ actual_sha256 # ref.content_sha256[1]
             THEN raise("ValueError", "Hash mismatch")
        ELSE IF ~decoded.ok THEN raise("ValueError", "Extracted range could not be decoded as UTF-8")
        ELSE [kind |-> "returned", exc |-> "", message |-> "",
              value |-> <<[text |-> decoded.text,
                           sha256 |-> actual_sha256,
                           bytes |-> Len(content_bytes),
                           lines |-> <<IF ref.start_line = <<>> THEN -1 ELSE ref.start_line[1],
                                       IF ref.end_line = <<>> THEN -1 ELSE ref.end_line[1]>>,
                           provenance |-> [run_id |-> m.run_id, artifact_role |-> ref.artifact_role,
                                           config_sha256 |-> m.config_sha256]]>>]

\* ------------------------------------------------------------------------
\* Range refs against a bundle directory
\* ------------------------------------------------------------------------

MaxOffset == 4

\* the texts the artifact code.md may hold
ArtifactTexts == {<<"LS", "a">>, <<"a", "LF", "e2", "a">>}

\* the directory of the manifest: code.md holds the text, other.md a byte that
\* starts no UTF-8 sequence, gone.md is not there
BundleFiles(text) ==
    [p \in {"code.md", "other.md", "gone.md"} |->
        IF p = "code.md" THEN File(Utf8Str(text))
        ELSE IF p = "other.md" THEN File(<<255>>)
        ELSE Missing]

Manifests ==
    {NoManifest,
     Manifest("bundle", <<Artifact("", "canonical_md", "code.md")>>, "test-run", "dummy-config-hash"),
     Manifest("bundle", <<Artifact("", "chunk_index_jsonl", "other.md"),
                          Artifact("", "canonical_md", "code.md"),
                          Artifact("", "canonical_md", "other.md")>>, "", ""),
     Manifest("bundle", <<Artifact("", "canonical_md", "gone.md")>>, "test-run", ""),
     Manifest("bundle", <<Artifact("", "canonical_md", ""),
                          Artifact("", "canonical_md", "code.md")>>, "test-run", ""),
     Manifest("dump_index", <<Artifact("canonical_md", "", "code.md")>>, "test-run", ""),
     Manifest("dump_index", <<Artifact("md", "canonical_md", "code.md")>>, "test-run", ""),
     Manifest("dump_index", <<Artifact("md", "canonical_md", "other.md"),
                              Artifact("canonical_md", "", "code.md")>>, "", "dummy-config-hash"),
     Manifest("other", <<Artifact("", "canonical_md", "code.md")>>, "test-run", "")}

\* an optional value of a ref: <<>> when the key is absent
Optional(S) == {<<>>} \cup {<<x>> : x \in S}

\* the hashes of a ref: none, one no span of an artifact has, the hash of the
\* artifact and of two spans in it
RangeRefs(data) ==
    [artifact_role : {"canonical_md", "chunk_index_jsonl", "invalid_role"},
     repo_id : {"", "test-repo"},
     file_path : {"", "code.md", "other.md"},
     start_byte : Optional(-1..MaxOffset),
     end_byte : Optional(0..(MaxOffset + 2)),
     start_line : {<<>>, <<2>>},
     end_line : {<<2>>},
     content_sha256 : {<<>>, <<Sha256(<<0>>)>>, <<Sha256(data)>>}
                      \cup {<<Sha256(SubSeq(data, a + 1, a + 2))>> : a \in 1..2}]

\* what is known of the schema from the tests: it turns down a role outside
\* ArtifactRole and a ref without repo_id, and it takes a ref that has all
\* eight keys with a role of ArtifactRole and offsets that are not negative
SchemaVerdicts(ref) ==
    IF ref.artifact_role \notin ArtifactRoles \/ ref.repo_id = "" THEN {"absent", "rejects"}
    ELSE IF /\ ref.file_path # "" /\ ref.start_line # <<>> /\ ref.content_sha256 # <<>>
            /\ ref.start_byte # <<>> /\ ref.end_byte # <<>> /\ ref.start_byte[1] >= 0
         THEN {"absent", "accepts"}
    ELSE {"absent", "accepts", "rejects"}

RangeIdle ==
    /\ rr_pc = "off" /\ rr_files = <<>> /\ rr_manifest = NoManifest
    /\ rr_in = <<>> /\ rr_schema = "absent" /\ rr_out = <<>>

RangeInit ==
    /\ rr_pc = "ready"
    /\ \E text \in ArtifactTexts : rr_files = BundleFiles(text)
    /\ rr_manifest \in Manifests
    /\ rr_in = <<>> /\ rr_schema = "absent" /\ rr_out = <<>>

\* a call of resolve_range_ref
Resolve ==
    /\ rr_pc = "ready"
    /\ \E ref \in RangeRefs(rr_files["code.md"].data) :
          \E schema \in SchemaVerdicts(ref) :
             /\ rr_in' = ref
             /\ rr_schema' = schema
             /\ rr_out' = ResolveRangeRef(rr_manifest, rr_files, ref, schema)
    /\ rr_pc' = "done"
    /\ UNCHANGED <<rr_files, rr_manifest>>

\* ------------------------------------------------------------------------
\* core/redactor.py
\* ------------------------------------------------------------------------

\* the character classes of the patterns: \s, [\s:=], ["'], [\w-], [0-9A-Z]
InClass(c, cls) ==
    LET Digits == {"0", "1", "2", "3", "4", "5", "6", "7", "8", "9"}
        IsUpper(x) == \E i \in 1..26 : UpperLetters[i] = x
        IsLower(x) == \E i \in 1..26 : LowerLetters[i] = x
    IN
    CASE cls = "space"     -> c \in {" ", "LF"}
      [] cls = "separator" -> c \in {" ", "LF", ":", "="}
      [] cls = "quote"     -> c \in {"QUOTE", "'"}
      [] cls = "word_dash" -> IsUpper(c) \/ IsLower(c) \/ c \in Digits \/ c \in {"_", "-"}
      [] cls = "upper_digit" -> IsUpper(c) \/ c \in Digits

\* how many characters of the class stand at position i and after it
RunLen(text, i, cls) ==
    LET others == {j \in i..Len(text) : ~InClass(text[j], cls)}
    IN  IF others = {} THEN Len(text) - i + 1
        ELSE (CHOOSE j \in others : \A k \in others : j <= k) - i

\* the literal lit stands at position i, as it is or (?i) without regard to case
LiteralAt(text, i, lit, ignorecase) ==
    /\ i + Len(lit) - 1 <= Len(text)
    /\ \A j \in 1..Len(lit) :
          IF ignorecase THEN LowerChar(text[i + j - 1]) = LowerChar(lit[j])
          ELSE text[i + j - 1] = lit[j]

\* stem[_-]?tail at position i: the length of the match, 0 when there is none
KeywordLen(text, i, stem, tail) ==
    LET j == i + Len(stem)
    IN  IF ~LiteralAt(text, i, stem, TRUE) THEN 0
        ELSE IF j <= Len(text) /\ text[j] \in {"_", "-"} /\ LiteralAt(text, j + 1, tail, TRUE)
             THEN Len(stem) + 1 + Len(tail)
        ELSE IF LiteralAt(text, j, tail, TRUE) THEN Len(stem) + Len(tail)
        ELSE 0

\* (api[_-]?key|access[_-]?token|secret[_-]?key) at position i
ApiKeywordLen(text, i) ==
    LET Max3(x, y, z) == IF x >= y /\ x >= z THEN x ELSE IF y >= z THEN y ELSE z
    IN
    Max3(KeywordLen(text, i, <<"a", "p", "i">>, <<"k", "e", "y">>),
         KeywordLen(text, i, <<"a", "c", "c", "e", "s", "s">>, <<"t", "o", "k", "e", "n">>),
         KeywordLen(text, i, <<"s", "e", "c", "r", "e", "t">>, <<"k", "e", "y">>))

\* (password|passwd|pwd) at position i
PasswordKeywordLen(text, i) ==
    IF LiteralAt(text, i, <<"p", "a", "s", "s", "w", "o", "r", "d">>, TRUE) THEN 8
    ELSE IF LiteralAt(text, i, <<"p", "a", "s", "s", "w", "d">>, TRUE) THEN 6
    ELSE IF LiteralAt(text, i, <<"p", "w", "d">>, TRUE) THEN 3
    ELSE 0

\* the shortest secret the first pattern takes: [\w-]{20,}
API_SECRET_MIN == 20
\* the shortest secret the second pattern takes: [\w-]{6,}
PASSWORD_MIN == 6
\* the characters after AKIA: [0-9A-Z]{16}
AWS_KEY_TAIL == 16

BeginMarker == <<"-", "-", "-", "-", "-", "B", "E", "G", "I", "N", " ", "P", "R", "I", "V", "A", "T", "E", " ", "K", "E", "Y", "-", "-", "-", "-", "-">>
EndMarker   == <<"-", "-", "-", "-", "-", "E", "N", "D", " ", "P", "R", "I", "V", "A", "T", "E", " ", "K", "E", "Y", "-", "-", "-", "-", "-">>

Redacted        == <<"[", "R", "E", "D", "A", "C", "T", "E", "D", "]">>
AwsKeyRedacted  == <<"[", "A", "W", "S", "_", "K", "E", "Y", "_", "R", "E", "D", "A", "C", "T", "E", "D", "]">>
KeyBlockRedacted == <<"[", "P", "R", "I", "V", "A", "T", "E", "_", "K", "E", "Y", "_", "B", "L", "O", "C", "K", "_", "R", "E", "D", "A", "C", "T", "E", "D", "]">>

\* keyword[\s:=]+(["']?)([\w-]{min,}) at position i, the keyword being kw
\* characters long: the length of the match and what \1\2[REDACTED] puts in
\* its place; length 0 when there is no match. The three classes share no
\* character, so the greedy match is the only one.
SecretAt(text, i, kw, min) ==
    LET seps  == RunLen(text, i + kw, "separator")
        q     == IF i + kw + seps <= Len(text) /\ InClass(text[i + kw + seps], "quote") THEN 1 ELSE 0
        word  == RunLen(text, i + kw + seps + q, "word_dash")
    IN  IF kw = 0 \/ seps = 0 \/ word < min THEN [len |-> 0, repl |-> <<>>]
        ELSE [len |-> kw + seps + q + word,
              repl |-> SubSeq(text, i, i + kw - 1)
                       \o SubSeq(text, i + kw + seps, i + kw + seps + q - 1)
                       \o Redacted]

\* the match of pattern number p of PATTERNS at position i
MatchAt(text, i, p) ==
    CASE p = 1 -> SecretAt(text, i, ApiKeywordLen(text, i), API_SECRET_MIN)
      [] p = 2 -> SecretAt(text, i, PasswordKeywordLen(text, i), PASSWORD_MIN)
      [] p = 3 -> IF /\ LiteralAt(text, i, <<"A", "K", "I", "A">>, FALSE)
                     /\ RunLen(text, i + 4, "upper_digit") >= AWS_KEY_TAIL
                  THEN [len |-> 4 + AWS_KEY_TAIL, repl |-> AwsKeyRedacted]
                  ELSE [len |-> 0, repl |-> <<>>]
      [] p = 4 -> LET from == i + Len(BeginMarker)
                      ends == {e \in from..Len(text) : LiteralAt(text, e, EndMarker, FALSE)}
                      e    == CHOOSE e \in ends : \A f \in ends : e <= f
                  IN  IF LiteralAt(text, i, BeginMarker, FALSE) /\ ends # {}
                      THEN [len |-> e + Len(EndMarker) - i, repl |-> KeyBlockRedacted]
                      ELSE [len |-> 0, repl |-> <<>>]

\* re.sub(pattern p, replacement, text): the matches from left to right, none
\* overlapping another; what is between them stays
RECURSIVE SubFrom(_, _, _, _)
SubFrom(text, i, acc, p) ==
    LET starts == {j \in i..Len(text) : MatchAt(text, j, p).len > 0}
        j == CHOOSE s \in starts : \A k \in starts : s <= k
        m == MatchAt(text, j, p)
    IN  IF starts = {} THEN acc \o SubSeq(text, i, Len(text))
        ELSE SubFrom(text, j + m.len, acc \o SubSeq(text, i, j - 1) \o m.repl, p)

\* re.sub with count=1: the first match only
SubFirst(text, p) ==
    LET starts == {j \in 1..Len(text) : MatchAt(text, j, p).len > 0}
        j == CHOOSE s \in starts : \A k \in starts : s <= k
        m == MatchAt(text, j, p)
    IN  IF starts = {} THEN text
        ELSE SubSeq(text, 1, j - 1) \o m.repl \o SubSeq(text, j + m.len, Len(text))

Sub(text, p) == SubFrom(text, 1, <<>>, p)

\* Redactor.redact: the patterns one after the other, each on what the one
\* before left
RECURSIVE RedactFrom(_, _, _)
RedactFrom(redacted, modified, p) ==
    IF p > 4 THEN [text |-> redacted, modified |-> modified]
    ELSE LET new_content == Sub(redacted, p)
         IN  IF new_content # redacted THEN RedactFrom(new_content, TRUE, p + 1)
             ELSE RedactFrom(redacted, modified, p + 1)

Redact(content) == RedactFrom(content, FALSE, 1)

\* ------------------------------------------------------------------------
\* Texts to redact
\* ------------------------------------------------------------------------

MaxTokens == 4

\* the pieces texts are put together from
TextTokens ==
    {<<"a", "p", "i", "_", "k", "e", "y">>, <<"A", "p", "i", "-", "K", "e", "y">>, <<"p", "w", "d">>, <<"=">>, <<" ">>, <<"QUOTE">>, <<"A", "1", "B", "2", "C", "3", "D", "4", "E", "5",
       "F", "6", "G", "7", "H", "8", "I", "9", "J", "0">>, <<"A", "K", "I", "A">>,
     BeginMarker, EndMarker}

RedactInputs == {Flatten(ts) : ts \in SeqsUpTo(TextTokens, MaxTokens)}

RedactIdle == rd_pc = "off" /\ rd_in = <<>> /\ rd_out = <<>> /\ rd_out2 = <<>>

RedactInit == rd_pc = "ready" /\ rd_in \in RedactInputs /\ rd_out = <<>> /\ rd_out2 = <<>>

\* redact(x)
RedactOnce ==
    /\ rd_pc = "ready"
    /\ rd_out' = Redact(rd_in)
    /\ rd_pc' = "once"
    /\ UNCHANGED <<rd_in, rd_out2>>

\* redact of what redact(x) returned
RedactAgain ==
    /\ rd_pc = "once"
    /\ rd_out2' = Redact(rd_out.text)
    /\ rd_pc' = "twice"
    /\ UNCHANGED <<rd_in, rd_out>>

\* ------------------------------------------------------------------------
\* cli/cmd_query.py
\* ------------------------------------------------------------------------

\* the RuntimeError the CLI's execute_query raises for a sqlite3.Error, by
\* the words of its message
CmdClassifyError(msg) ==
    IF Contains(msg, Words("no such module: fts5")) THEN "SQLite FTS5 extension missing in this environment."
    ELSE IF Contains(msg, Words("no such function: bm25")) THEN "SQLite FTS5 auxiliary function 'bm25' missing."
    ELSE IF Contains(msg, Words("syntax error")) THEN "FTS syntax error in query"
    ELSE "Database error executing query"

\* cmd_query.execute_query(index_path, query_text, k, filters): what it
\* returns, or the exception that leaves it. In fts mode it first probes
\* SELECT bm25(chunks_fts) FROM chunks_fts LIMIT 0 and scores by the rank
\* column when the probe raises; it orders by the score alone.
CmdExecuteQuery(d, env, tie, in) ==
    LET fts == in.text # <<>>
        probe == EngineExecute(d, env, [fts |-> TRUE, match |-> <<"x">>, scoring |-> "bm25(chunks_fts)",
                                        where |-> <<>>, order |-> <<>>, limit |-> 0], tie)
        stmt == [fts     |-> fts,
                 match   |-> IF fts THEN CleanQuery(in.text) ELSE <<>>,
                 scoring |-> IF ~fts THEN "0" ELSE IF probe.ok THEN "bm25(chunks_fts)" ELSE "rank",
                 where   |-> WhereClauses(in.filters),
                 order   |-> IF fts THEN <<"score">> ELSE MetaOrder,
                 limit   |-> in.k]
        res == EngineExecute(d, env, stmt, tie)
        hit(r) == [chunk_id |-> r.chunk_id, repo_id |-> r.repo_id, path |-> r.path,
                   range |-> <<r.start_line, r.end_line>>, score |-> r.score,
                   layer |-> r.layer, type |-> r.artifact_type]
    IN  IF res.ok
        THEN [kind |-> "returned", exc |-> "", message |-> "",
              out |-> <<[query |-> in.text,
                         count |-> Len(res.rows),
                         engine |-> IF fts THEN "fts5" ELSE "metadata",
                         query_mode |-> IF fts THEN "fts" ELSE "metadata",
                         applied_filters |-> in.filters,
                         results |-> [i \in 1..Len(res.rows) |-> hit(res.rows[i])],
                         fts_query |-> IF fts THEN <<CleanQuery(in.text)>> ELSE <<>>]>>]
        ELSE [kind |-> "raised", exc |-> "RuntimeError", message |-> CmdClassifyError(res.error),
              out |-> <<>>]

\* ------------------------------------------------------------------------
\* retrieval/eval_core.py
\* ------------------------------------------------------------------------

\* eval_core.execute_query(index_path, query_text, k, filters): the statement
\* and the classification of errors are those of query_core; the hits have
\* no "why" and the result no "k"
EvalCoreExecuteQuery(d, env, tie, in) ==
    LET fts == in.text # <<>>
        res == EngineExecute(d, env, Statement(in), tie)
        hit(r) == [chunk_id |-> r.chunk_id, repo_id |-> r.repo_id, path |-> r.path,
                   range |-> <<r.start_line, r.end_line>>, score |-> r.score,
                   layer |-> r.layer, type |-> r.artifact_type]
    IN  IF res.ok
        THEN [kind |-> "returned", exc |-> "", message |-> "",
              out |-> <<[query |-> in.text,
                         count |-> Len(res.rows),
                         engine |-> IF fts THEN "fts5" ELSE "metadata",
                         query_mode |-> IF fts THEN "fts" ELSE "metadata",
                         applied_filters |-> in.filters,
                         results |-> [i \in 1..Len(res.rows) |-> hit(res.rows[i])],
                         fts_query |-> IF fts THEN <<CleanQuery(in.text)>> ELSE <<>>]>>]
        ELSE [kind |-> "raised", exc |-> "RuntimeError", message |-> ClassifyError(res.error),
              out |-> <<>>]

\* ------------------------------------------------------------------------
\* One call, made through query_core, cmd_query and eval_core
\* ------------------------------------------------------------------------

CompareIdle == qc_pc = "off" /\ qc_in = <<>> /\ qc_out = <<>>

\* the artifacts to build the index from, or an index of an earlier version
CompareInit ==
    /\ fs_dump = Dump(2) /\ fs_sidecar = Missing /\ fs_locked = FALSE
    /\ fs_chunk \in QueryStreams
    /\ db \in {NoDb, OldDb}
    /\ db = OldDb => fs_chunk = Missing
    /\ b_pc = "idle" /\ bld = NoBuild /\ b_ret = "none" /\ b_src = NoSource /\ b_old = NoDb /\ v_ret = "none"
    /\ qc_pc = "ready" /\ qc_in = <<>> /\ qc_out = <<>>

\* the calls worth comparing: k below one is left to the callers
CompareInputs == {in \in QueryInputs : in.k >= 1}

\* the same call of the three execute_query functions; each connects to
\* index_path, which makes the file when it is missing
CompareQueries ==
    /\ b_pc = "idle" /\ qc_pc = "ready"
    /\ \E in \in CompareInputs, tie \in {"rowid_asc", "rowid_desc"} :
          /\ qc_in' = [call |-> in, tie |-> tie]
          /\ qc_out' = [core |-> ExecuteQueryResult(Connect(db), in.env, tie, in),
                        cmd  |-> CmdExecuteQuery(Connect(db), in.env, tie, in),
                        eval |-> EvalCoreExecuteQuery(Connect(db), in.env, tie, in)]
    /\ qc_pc' = "done"
    /\ db' = Connect(db)
    /\ UNCHANGED <<fsVars, buildVars, v_ret>>

\* ------------------------------------------------------------------------
\* service/jobstore.py, service/logging_provider.py: the log of a job
\* ------------------------------------------------------------------------

MaxAppends == 3

\* the lines a caller may hand to append_log_line: any str
LogLines == SeqsUpTo({"a", "CR", "LF"}, 2)

\* append_log_line(job_id, line): f.write(line + "\n") on the file opened "a"
AppendLogLine(file, line) == File(file.data \o line \o <<"LF">>)

\* what a file opened in text mode yields for its bytes: "\r\n" and "\r"
\* are read as "\n"
RECURSIVE ReadText(_)
ReadText(data) ==
    IF data = <<>> THEN <<>>
    ELSE IF Head(data) = "CR"
         THEN IF Len(data) > 1 /\ data[2] = "LF"
              THEN <<"LF">> \o ReadText(Tail(Tail(data)))
              ELSE <<"LF">> \o ReadText(Tail(data))
         ELSE <<Head(data)>> \o ReadText(Tail(data))

\* iterating over the file: one item per "\n", the "\n" kept, and a last
\* item for what follows the last "\n"
RECURSIVE IterLines(_, _)
IterLines(text, cur) ==
    IF text = <<>> THEN (IF cur = <<>> THEN <<>> ELSE <<cur>>)
    ELSE IF Head(text) = "LF"
         THEN <<cur \o <<"LF">>>> \o IterLines(Tail(text), <<>>)
         ELSE IterLines(Tail(text), cur \o <<Head(text)>>)

\* line.rstrip("\r\n")
RECURSIVE RStripNewlines(_)
RStripNewlines(line) ==
    IF line # <<>> /\ line[Len(line)] \in {"CR", "LF"}
    THEN RStripNewlines(SubSeq(line, 1, Len(line) - 1))
    ELSE line

\* read_log_chunk with the ids counted from the start of what it returns
ReadLogChunkFromOne(file, last_line_id) ==
    IF ~file.present THEN <<>>
    ELSE LET lines == IterLines(ReadText(file.data), <<>>)
             skip_count == IF last_line_id > 0 THEN last_line_id ELSE 0
             rest == IF skip_count >= Len(lines) THEN <<>>
                     ELSE SubSeq(lines, skip_count + 1, Len(lines))
         IN  [i \in 1..Len(rest) |-> <<RStripNewlines(rest[i]), i>>]

\* JobStore.read_log_chunk(job_id, last_line_id)
ReadLogChunk(file, last_line_id) ==
    IF ~file.present THEN <<>>
    ELSE LET lines == IterLines(ReadText(file.data), <<>>)
             skip_count == IF last_line_id > 0 THEN last_line_id ELSE 0
             rest == IF skip_count >= Len(lines) THEN <<>>
                     ELSE SubSeq(lines, skip_count + 1, Len(lines))
         IN  [i \in 1..Len(rest) |-> <<RStripNewlines(rest[i]), skip_count + i>>]

\* MockLogProvider.read_log_chunk(job_id, last_line_id) over logs_map[job_id]:
\* lines[start_idx:] counts a negative start_idx from the end
MockReadLogChunk(lines, last_line_id) ==
    LET start_idx == last_line_id
        from == IF start_idx >= 0 THEN Min(start_idx, Len(lines))
                ELSE IF Len(lines) + start_idx > 0 THEN Len(lines) + start_idx ELSE 0
        chunk == SubSeq(lines, from + 1, Len(lines))
    IN  [i \in 1..Len(chunk) |-> <<chunk[i], start_idx + i>>]

LogIdle ==
    /\ lg_file = Missing /\ lg_appended = <<>> /\ lg_last = 0 /\ lg_got = <<>>
    /\ lg_probe = <<>> /\ lg_op = "off"

\* a job whose log was not written to yet, and a reader that received nothing
LogInit ==
    /\ lg_file = Missing /\ lg_appended = <<>> /\ lg_last = 0 /\ lg_got = <<>>
    /\ lg_probe = <<>> /\ lg_op = "none"

\* append_log_line(job_id, line), under the lock of the store
LogAppend ==
    /\ lg_op # "off" /\ Len(lg_appended) < MaxAppends
    /\ \E line \in LogLines :
          /\ lg_file' = AppendLogLine(lg_file, line)
          /\ lg_appended' = Append(lg_appended, line)
    /\ lg_op' = "append"
    /\ UNCHANGED <<lg_last, lg_got, lg_probe>>

\* the reader of LogProvider.read_log_chunk: it passes the id of the last
\* line it received, 0 when it received none
LogPoll ==
    /\ lg_op # "off"
    /\ \E res \in {ReadLogChunk(lg_file, lg_last)} :
          /\ lg_got' = lg_got \o res
          /\ lg_last' = IF res = <<>> THEN lg_last ELSE res[Len(res)][2]
    /\ lg_op' = "poll"
    /\ UNCHANGED <<lg_file, lg_appended, lg_probe>>

\* read_log_chunk(job_id, last_line_id) for a last_line_id of any kind, and
\* the mock provider over the same lines
LogProbe ==
    /\ lg_op # "off"
    /\ \E n \in -1..MaxAppends :
          lg_probe' = [last_line_id |-> n,
                       chunk |-> ReadLogChunk(lg_file, n),
                       mock |-> MockReadLogChunk(lg_appended, n)]
    /\ lg_op' = "probe"
    /\ UNCHANGED <<lg_file, lg_appended, lg_last, lg_got>>

\* ------------------------------------------------------------------------
\* service/jobstore.py: cleanup_jobs
\* ------------------------------------------------------------------------

MaxJobs == 2

\* created_at is a str. The texts here stand for "2024-01-01T0h:00:00"
\* followed by nothing, "Z" or ".500000", written <<h>>, <<h, "Z">> and
\* <<h, ".", "5">>, and for a text that is no time, <<"n">>
CreatedAts == {<<"1">>, <<"5">>, <<"5", "Z">>, <<"5", ".", "5">>, <<"n">>}

\* the code point of a character
Ord(c) ==
    CASE c = "+" -> 43 [] c = "." -> 46 [] c = "1" -> 49 [] c = "5" -> 53
      [] c = "Z" -> 90 [] c = "n" -> 110

\* a < b for two str, as sorted() compares its keys
RECURSIVE StrLess(_, _)
StrLess(a, b) ==
    IF b = <<>> THEN FALSE
    ELSE IF a = <<>> THEN TRUE
    ELSE IF Head(a) # Head(b) THEN Ord(Head(a)) < Ord(Head(b))
    ELSE StrLess(Tail(a), Tail(b))

\* datetime.fromisoformat after the "Z" is replaced, a time without zone
\* taken as UTC: ok and the instant in half seconds since midnight, or not ok
ParseCreatedAt(text) ==
    LET s == IF text # <<>> /\ text[Len(text)] = "Z" THEN SubSeq(text, 1, Len(text) - 1) ELSE text
        hour == IF s # <<>> /\ Head(s) \in {"1", "5"} THEN Ord(Head(s)) - 48 ELSE 0
    IN  IF hour = 0 THEN [ok |-> FALSE, instant |-> 0]
        ELSE IF Len(s) = 1 THEN [ok |-> TRUE, instant |-> hour * 7200]
        ELSE IF Tail(s) = <<".", "5">> THEN [ok |-> TRUE, instant |-> hour * 7200 + 1]
        ELSE [ok |-> FALSE, instant |-> 0]

\* datetime.now(timezone.utc): 03:00:00 of the next day, in half seconds
Now == 27 * 7200

IsActive(status) == status \in {"queued", "running", "canceling"}

\* sorted(jobs, key=created_at, reverse=True): equal keys keep their order
SortedByCreatedAt(jobs) ==
    LET before(i, j) == \/ StrLess(jobs[j].created_at, jobs[i].created_at)
                        \/ jobs[j].created_at = jobs[i].created_at /\ i < j
        place(i) == 1 + Cardinality({j \in 1..Len(jobs) : j # i /\ before(j, i)})
    IN  [n \in 1..Len(jobs) |-> jobs[CHOOSE i \in 1..Len(jobs) : place(i) = n]]

\* the ids cleanup_jobs puts into to_remove
ToRemove(jobs, max_jobs, max_age_hours) ==
    LET limit_time == Now - max_age_hours * 7200
        all_jobs == SortedByCreatedAt(jobs)
        aged == {all_jobs[i].id : i \in {k \in 1..Len(all_jobs) :
                    /\ ParseCreatedAt(all_jobs[k].created_at).ok
                    /\ ParseCreatedAt(all_jobs[k].created_at).instant < limit_time
                    /\ ~IsActive(all_jobs[k].status)}}
        IsRemaining(j) == j.id \notin aged
        IsFinished(j) == ~IsActive(j.status)
        IsActiveJob(j) == IsActive(j.status)
        remaining == SelectSeq(all_jobs, IsRemaining)
        finished == SelectSeq(remaining, IsFinished)
        active == SelectSeq(remaining, IsActiveJob)
        capacity == IF max_jobs - Len(active) > 0 THEN max_jobs - Len(active) ELSE 0
    IN  aged \cup {finished[i].id : i \in (capacity + 1)..Len(finished)}

\* the artifact ids of the jobs with the given ids
ArtifactIdsOf(jobs, ids) ==
    UNION {jobs[i].artifact_ids : i \in {k \in 1..Len(jobs) : jobs[k].id \in ids}}

\* _remove_job_internal for each id: the files it unlinks. _safe_unlink
\* leaves an absolute path alone, and every failure to unlink is passed over
Unlinked(jobs, arts, ids, locked) ==
    IF locked THEN {}
    ELSE {<<"log", id>> : id \in ids}
         \cup {<<"art", a.id>> : a \in {x \in arts : x.id \in ArtifactIdsOf(jobs, ids) /\ x.path = "rel"}}

JobIdle ==
    /\ js_pc = "off" /\ js_jobs = <<>> /\ js_arts = {} /\ js_files = {}
    /\ js_locked = FALSE /\ js_saved = <<>> /\ js_call = <<>>

\* a store after add_job, add_artifact and append_log_line for each job: a
\* job has a log and at most one artifact, whose file is under the merges
\* directory by a relative or an absolute path
JobInit ==
    /\ js_pc = "ready"
    /\ \E n \in 0..MaxJobs :
          \E status \in [1..n -> {"queued", "running", "canceling", "succeeded"}],
             created \in [1..n -> CreatedAts],
             art \in [1..n -> {"none", "rel", "abs"}] :
               /\ js_jobs = [i \in 1..n |-> [id |-> i, status |-> status[i], created_at |-> created[i],
                                             artifact_ids |-> IF art[i] = "none" THEN {} ELSE {i}]]
               /\ js_arts = {[id |-> i, path |-> art[i]] : i \in {k \in 1..n : art[k] # "none"}}
               /\ js_files = {<<"log", i>> : i \in 1..n} \cup {<<"art", i>> : i \in {k \in 1..n : art[k] # "none"}}
    /\ js_locked \in BOOLEAN
    /\ js_saved = [jobs |-> {js_jobs[i].id : i \in 1..Len(js_jobs)}, artifacts |-> {a.id : a \in js_arts}]
    /\ js_call = <<>>

\* cleanup_jobs(max_jobs, max_age_hours), under the lock of the store
CleanupJobs ==
    /\ js_pc = "ready"
    /\ \E max_jobs \in 0..MaxJobs, max_age_hours \in {24} :
          \E to_remove \in {ToRemove(js_jobs, max_jobs, max_age_hours)} :
             LET IsKept(j) == j.id \notin to_remove
             IN  /\ js_call' = [max_jobs |-> max_jobs, max_age_hours |-> max_age_hours,
                                jobs |-> js_jobs, arts |-> js_arts, files |-> js_files]
                 /\ js_jobs' = SelectSeq(js_jobs, IsKept)
                 /\ js_arts' = {a \in js_arts : a.id \notin ArtifactIdsOf(js_jobs, to_remove)}
                 /\ js_files' = js_files \ Unlinked(js_jobs, js_arts, to_remove, js_locked)
                 /\ js_saved' = IF to_remove = {} THEN js_saved
                                ELSE [jobs |-> {js_jobs[i].id : i \in 1..Len(js_jobs)} \ to_remove,
                                      artifacts |-> {a.id : a \in js_arts} \ ArtifactIdsOf(js_jobs, to_remove)]
    /\ js_pc' = "done"
    /\ UNCHANGED js_locked

\* ------------------------------------------------------------------------
\* The command line: cli/main.py, cli/cmd_index.py, cli/cmd_query.py,
\* cli/cmd_eval.py
\* ------------------------------------------------------------------------

\* print(...) of a line of text, named by what it says
TextLine(what) == [kind |-> "text", what |-> what, doc |-> <<>>]

\* print(json.dumps(doc, indent=2))
JsonText(doc) == [kind |-> "json", what |-> "", doc |-> <<doc>>]

\* nothing written yet, the process still running
NoOutput == [stdout |-> <<>>, stderr |-> <<>>, code |-> <<>>]

\* the process ends with the exit code, having written the lines
Exit(out, stdout, stderr, code) ==
    [stdout |-> out.stdout \o stdout, stderr |-> out.stderr \o stderr, code |-> <<code>>]

\* the locals of run_eval
NoLocals == [gold_queries |-> <<>>, i |-> 0, hits_at_k |-> 0, results_detail |-> <<>>]

\* the namespace parse_args returns for a command, with the defaults of the
\* parsers; env and tie are the SQLite the process runs on
Args(command) ==
    [command |-> command, rebuild |-> FALSE, verify |-> FALSE, q |-> <<>>, k |-> 10,
     filters |-> Filters(<<>>, <<>>, <<>>, "", ""), emit |-> "text",
     queries |-> Missing, ref |-> Missing, format |-> "json", env |-> "ok", tie |-> "rowid_asc"]

\* a line of the gold queries file as parse_gold_queries reads it: a title
\* (N. **"query"**), an Expected line with its backticked terms, a Filter
\* line with its key=value pairs, or any other line
GoldLine(kind, query, terms, filters) ==
    [kind |-> kind, query |-> query, terms |-> terms, filters |-> filters]

\* parse_gold_queries over the lines from line i on: a title closes the
\* query before it and opens one; lines before the first title are skipped;
\* Expected lines extend expected_paths; Filter lines set filters[key]
RECURSIVE ParseGoldFrom(_, _, _, _)
ParseGoldFrom(lines, i, queries, current) ==
    IF i > Len(lines) THEN queries \o current
    ELSE LET line == lines[i]
             cur == current[1]
             set(f, g) == [key \in DOMAIN f |->
                             IF g[key] # (IF key \in {"layer", "artifact_type"} THEN "" ELSE <<>>)
                             THEN g[key] ELSE f[key]]
         IN  IF line.kind = "title"
             THEN ParseGoldFrom(lines, i + 1, queries \o current,
                                <<[query |-> line.query, expected_paths |-> <<>>,
                                   filters |-> Filters(<<>>, <<>>, <<>>, "", "")]>>)
             ELSE IF current = <<>> THEN ParseGoldFrom(lines, i + 1, queries, current)
             ELSE IF line.kind = "expected"
                  THEN ParseGoldFrom(lines, i + 1, queries,
                                     <<[cur EXCEPT !.expected_paths = cur.expected_paths \o line.terms]>>)
             ELSE IF line.kind = "filter"
                  THEN ParseGoldFrom(lines, i + 1, queries,
                                     <<[cur EXCEPT !.filters = set(cur.filters, line.filters)]>>)
             ELSE ParseGoldFrom(lines, i + 1, queries, current)

\* parse_gold_queries(md_path)
ParseGoldQueries(file) ==
    IF ~file.present THEN [raises |-> "FileNotFoundError", queries |-> <<>>]
    ELSE [raises |-> "", queries |-> ParseGoldFrom(file.data, 1, <<>>, <<>>)]

\* a relevance check that asks for the whole path
TopMatchWhole(found_paths, expected) ==
    LET at == {n \in 1..Len(found_paths) :
                  \E e \in 1..Len(expected) : found_paths[n] = expected[e]}
    IN  IF at = {} THEN <<>> ELSE <<found_paths[CHOOSE n \in at : \A m \in at : n <= m]>>

\* the relevance check of run_eval: the first path, in result order, that
\* holds one of the expected terms; <<>> when there is none
TopMatch(found_paths, expected) ==
    LET at == {n \in 1..Len(found_paths) :
                  \E e \in 1..Len(expected) : Contains(found_paths[n], expected[e])}
    IN  IF at = {} THEN <<>> ELSE <<found_paths[CHOOSE n \in at : \A m \in at : n <= m]>>

MaxRuns == 2

\* gold query files: none; one without a title; one with three queries, the
\* second of which the engine cannot parse; one whose second query has two
\* Expected lines and a filter and whose first query finds no expected path
GoldFiles ==
    LET none == Filters(<<>>, <<>>, <<>>, "", "")
        Title(q) == GoldLine("title", q, <<>>, none)
        Expected(terms) == GoldLine("expected", <<>>, terms, none)
        Other == GoldLine("other", <<>>, <<>>, none)
    IN  {Missing,
         File(<<Other, Expected(<<<<"a">>>>)>>),
         File(<<Expected(<<<<"a">>>>), Title(<<"d">>), Other, Expected(<<<<"a", "_", "b">>>>),
                Title(<<"(">>), Expected(<<<<"a">>>>),
                Title(<<"m">>), Expected(<<<<"q">>, <<".", "m">>>>)>>),
         File(<<Title(<<"m">>), Expected(<<<<"q">>>>),
                Title(<<"d">>), Expected(<<<<"q">>>>), Expected(<<<<"x", "b">>>>),
                GoldLine("filter", <<>>, <<>>, Filters(<<>>, <<>>, <<>>, "test", ""))>>)}

\* the ref files of range get: none, one that is not JSON, a ref inside the
\* artifact and one that ends after it
RefFiles ==
    LET Ref(end) == [artifact_role |-> "canonical_md", repo_id |-> "test-repo", file_path |-> "code.md",
                     start_byte |-> <<0>>, end_byte |-> <<end>>, start_line |-> <<>>, end_line |-> <<2>>,
                     content_sha256 |-> <<>>]
    IN  {Missing, File(<<[valid |-> FALSE, ref |-> <<>>]>>),
         File(<<[valid |-> TRUE, ref |-> <<Ref(1)>>]>>), File(<<[valid |-> TRUE, ref |-> <<Ref(9)>>]>>)}

\* the argument lists main is started with
CliArgs ==
    {Args("usage_error"), Args(""), Args("verify")}
    \cup {[Args("index") EXCEPT !.rebuild = r, !.verify = v] : r \in BOOLEAN, v \in BOOLEAN}
    \cup {[Args("query") EXCEPT !.q = t, !.k = MaxK, !.emit = e, !.env = env] :
             t \in {<<>>, <<"d">>, <<"(">>}, e \in {"text", "json"}, env \in {"ok", "no_fts5", "no_bm25"}}
    \cup {[Args("eval") EXCEPT !.queries = g, !.k = k, !.emit = e, !.env = env, !.tie = tie] :
             g \in GoldFiles, k \in {1, MaxK}, e \in {"text", "json"},
             env \in {"ok", "no_fts5"}, tie \in {"rowid_asc", "rowid_desc"}}
    \cup {[Args("range") EXCEPT !.ref = r, !.format = f] : r \in RefFiles, f \in {"raw", "json"}}

\* main up to the dispatch: parse_args ends the process with code 2 and a
\* usage message on stderr when the arguments are not those of a command;
\* no command prints the help; verify is a placeholder; every other command
\* goes to its handler
Main ==
    /\ cli_pc \in {"ready", "exited"}
    /\ cli_run < MaxRuns
    /\ \E args \in CliArgs :
          /\ cli_in' = args
          /\ CASE args.command = "usage_error" ->
                    /\ cli_out' = Exit(NoOutput, <<>>, <<TextLine("usage")>>, 2)
                    /\ cli_pc' = "exited"
               [] args.command = "" ->
                    /\ cli_out' = Exit(NoOutput, <<TextLine("help")>>, <<>>, 0)
                    /\ cli_pc' = "exited"
               [] args.command = "verify" ->
                    /\ cli_out' = Exit(NoOutput, <<TextLine("Verify command placeholder.")>>, <<>>, 1)
                    /\ cli_pc' = "exited"
               [] OTHER ->
                    /\ cli_out' = NoOutput
                    /\ cli_pc' = args.command
    /\ cli_run' = cli_run + 1
    /\ cli_loc' = NoLocals
    /\ UNCHANGED indexVars

\* a handler that leaves the file where it is
LeaveInPlace(d, locked) == d

\* what run_index leaves at out_path after a failed build: the file is
\* unlinked when it exists, and an OSError of the unlink is passed over
RemoveIfExists(d, locked) == IF d.exists /\ ~locked THEN NoDb ELSE d

\* run_index up to the call of build_index
RunIndex ==
    /\ cli_pc = "index"
    /\ LET valid == VerifyIndexResult(db, fs_dump, fs_chunk)
           end(stdout, stderr, code) ==
               /\ cli_out' = Exit(cli_out, stdout, stderr, code)
               /\ cli_pc' = "exited"
               /\ UNCHANGED b_ret
       IN  IF ~fs_dump.present THEN end(<<>>, <<TextLine("Error: Dump file not found")>>, 1)
           ELSE IF ~fs_chunk.present THEN end(<<>>, <<TextLine("Error: Chunk index file not found")>>, 1)
           ELSE IF cli_in.verify
                THEN IF valid
                     THEN end(<<TextLine("Verifying index"), TextLine("Index is valid and up-to-date.")>>, <<>>, 0)
                     ELSE end(<<TextLine("Verifying index"), TextLine("Index is stale, missing, or invalid.")>>, <<>>, 1)
           ELSE IF db.exists /\ ~cli_in.rebuild /\ valid
                THEN end(<<TextLine("Index is already up-to-date.")>>, <<>>, 0)
           ELSE /\ cli_out' = [cli_out EXCEPT !.stdout =
                                  (IF db.exists /\ ~cli_in.rebuild
                                   THEN <<TextLine("Index is stale. Rebuilding...")>> ELSE <<>>)
                                  \o <<TextLine("Building index")>>]
                /\ cli_pc' = "build"
                /\ b_ret' = "none"
    /\ UNCHANGED <<fsVars, db, b_pc, bld, b_src, b_old, v_ret, cli_in, cli_loc, cli_run>>

\* run_index after build_index: it returned, or an exception left it and
\* the handler reports it and removes the file
RunIndexDone ==
    /\ cli_pc = "build" /\ b_pc = "idle" /\ b_ret # "none"
    /\ IF b_ret = "returned"
       THEN /\ cli_out' = Exit(cli_out, <<TextLine("Index built successfully")>>, <<>>, 0)
            /\ UNCHANGED db
       ELSE /\ cli_out' = Exit(cli_out, <<>>, <<TextLine("Error building index")>>, 1)
            /\ db' = RemoveIfExists(db, fs_locked)
    /\ cli_pc' = "exited"
    /\ UNCHANGED <<fsVars, b_pc, bld, b_ret, b_src, b_old, v_ret, cli_in, cli_loc, cli_run>>

\* run_query
RunQuery ==
    /\ cli_pc = "query"
    /\ \E res \in {CmdExecuteQuery(db, cli_in.env, cli_in.tie,
                                   [text |-> cli_in.q, k |-> cli_in.k, filters |-> cli_in.filters])} :
         LET rows == Flatten([n \in 1..Len(res.out[1].results) |->
                                <<TextLine("hit"), TextLine("hit details")>>])
         IN  cli_out' =
             IF ~db.exists THEN Exit(cli_out, <<>>, <<TextLine("Error: Index file not found")>>, 1)
             ELSE IF res.kind = "raised" THEN Exit(cli_out, <<>>, <<TextLine(res.message)>>, 1)
             ELSE IF cli_in.emit = "json" THEN Exit(cli_out, <<JsonText(res.out[1])>>, <<>>, 0)
             ELSE Exit(cli_out, <<TextLine("Found"), TextLine("rule")>> \o rows, <<>>, 0)
    /\ cli_pc' = "exited"
    /\ UNCHANGED <<indexVars, cli_in, cli_loc, cli_run>>

\* run_eval up to its loop: the index file and the queries file are looked
\* for, the gold queries parsed, and in text mode the head of the table printed
RunEval ==
    /\ cli_pc = "eval"
    /\ LET parsed == ParseGoldQueries(cli_in.queries)
           end(message) ==
               /\ cli_out' = Exit(cli_out, <<>>, <<TextLine(message)>>, 1)
               /\ cli_pc' = "exited"
               /\ UNCHANGED cli_loc
       IN  IF ~db.exists THEN end("Error: Index file not found")
           ELSE IF parsed.raises # "" THEN end("Error parsing queries file")
           ELSE IF parsed.queries = <<>> THEN end("No queries found in input file.")
           ELSE /\ cli_out' = [cli_out EXCEPT !.stdout =
                                  IF cli_in.emit = "json" THEN <<>>
                                  ELSE <<TextLine("Running Eval"), TextLine("rule"),
                                         TextLine("columns"), TextLine("rule")>>]
                /\ cli_loc' = [NoLocals EXCEPT !.gold_queries = parsed.queries, !.i = 1]
                /\ cli_pc' = "eval_loop"
    /\ UNCHANGED <<indexVars, cli_in, cli_run>>

\* a loop that writes its rows in JSON mode too
RowWrittenAlways(out, is_json_mode, raised) ==
    IF raised THEN [out EXCEPT !.stderr = Append(out.stderr, TextLine("error row"))]
    ELSE [out EXCEPT !.stdout = Append(out.stdout, TextLine("row"))]

\* the row run_eval writes for a query unless in JSON mode: on stdout, or on
\* stderr when the query raised
RowWritten(out, is_json_mode, raised) ==
    IF is_json_mode THEN out
    ELSE IF raised THEN [out EXCEPT !.stderr = Append(out.stderr, TextLine("error row"))]
    ELSE [out EXCEPT !.stdout = Append(out.stdout, TextLine("row"))]

\* run_eval: one turn of "for q in gold_queries", with its try and except
EvalQuery ==
    /\ cli_pc = "eval_loop"
    /\ cli_loc.i <= Len(cli_loc.gold_queries)
    /\ \E q \in {cli_loc.gold_queries[cli_loc.i]} :
       \E res \in {CmdExecuteQuery(db, cli_in.env, cli_in.tie,
                                  [text |-> q.query, k |-> cli_in.k, filters |-> q.filters])} :
       LET found_paths == [n \in 1..Len(res.out[1].results) |-> res.out[1].results[n].path]
           top_match == TopMatch(found_paths, q.expected_paths)
           is_relevant == top_match # <<>>
           detail == IF res.kind = "returned"
                     THEN [query |-> q.query, filters |-> q.filters, expected |-> q.expected_paths,
                           is_relevant |-> is_relevant, hit_path |-> top_match,
                           found_count |-> res.out[1].count, top_results |-> found_paths,
                           error |-> <<>>]
                     ELSE [query |-> q.query, filters |-> q.filters, expected |-> q.expected_paths,
                           is_relevant |-> FALSE, hit_path |-> <<>>,
                           found_count |-> 0, top_results |-> <<>>,
                           error |-> <<res.message>>]
       IN  /\ cli_loc' = [cli_loc EXCEPT
                            !.i = cli_loc.i + 1,
                            !.hits_at_k = IF res.kind = "returned" /\ is_relevant
                                          THEN cli_loc.hits_at_k + 1 ELSE cli_loc.hits_at_k,
                            !.results_detail = Append(cli_loc.results_detail, detail)]
           /\ cli_out' = RowWritten(cli_out, cli_in.emit = "json", res.kind = "raised")
    /\ UNCHANGED <<indexVars, cli_pc, cli_in, cli_run>>

\* run_eval after the loop: recall@k, as the fraction whose value the float
\* (hits_at_k / total_queries) * 100.0 is, and the summary or the one JSON text
EvalDone ==
    /\ cli_pc = "eval_loop"
    /\ cli_loc.i > Len(cli_loc.gold_queries)
    /\ LET total_queries == Len(cli_loc.gold_queries)
           recall_at_k == [num |-> cli_loc.hits_at_k * 100, den |-> total_queries]
           out == [metrics |-> [k |-> cli_in.k, recall |-> recall_at_k,
                                total_queries |-> total_queries, hits |-> cli_loc.hits_at_k],
                   details |-> cli_loc.results_detail]
       IN  cli_out' =
             IF cli_in.emit = "json" THEN Exit(cli_out, <<JsonText(out)>>, <<>>, 0)
             ELSE Exit(cli_out, <<TextLine("rule"), TextLine("Recall"), TextLine("rule")>>, <<>>, 0)
    /\ cli_pc' = "exited"
    /\ UNCHANGED <<indexVars, cli_in, cli_loc, cli_run>>

\* the bundle cmd_range_get reads from: a manifest with one canonical_md
\* artifact, and the file of the artifact
RangeBundle ==
    [manifest |-> Manifest("bundle", <<Artifact("", "canonical_md", "code.md")>>, "test-run", ""),
     files |-> BundleFiles(<<"a", "LF", "e2", "a">>)]

\* cmd_range_get: the ref file is read and parsed, the range resolved and
\* printed; any exception is reported on stderr
CmdRangeGet ==
    /\ cli_pc = "range"
    /\ \E schema \in (IF cli_in.ref.present /\ cli_in.ref.data[1].valid
                      THEN SchemaVerdicts(cli_in.ref.data[1].ref[1]) ELSE {"absent"}) :
          LET result == ResolveRangeRef(RangeBundle.manifest, RangeBundle.files,
                                        cli_in.ref.data[1].ref[1], schema)
          IN  cli_out' =
                IF ~cli_in.ref.present THEN Exit(cli_out, <<>>, <<TextLine("Error: range_ref file not found")>>, 1)
                ELSE IF ~cli_in.ref.data[1].valid THEN Exit(cli_out, <<>>, <<TextLine("Error: JSONDecodeError")>>, 1)
                ELSE IF result.kind = "raised" THEN Exit(cli_out, <<>>, <<TextLine(result.message)>>, 1)
                ELSE IF cli_in.format = "json" THEN Exit(cli_out, <<JsonText(result.value[1])>>, <<>>, 0)
                ELSE Exit(cli_out, <<TextLine("text")>>, <<>>, 0)
    /\ cli_pc' = "exited"
    /\ UNCHANGED <<indexVars, cli_in, cli_loc, cli_run>>

CliIdle ==
    /\ cli_pc = "off" /\ cli_in = <<>> /\ cli_loc = <<>> /\ cli_out = <<>> /\ cli_run = 0

\* the artifacts of the pipeline and, maybe, an index of an earlier version
CliInit ==
    /\ fs_dump \in {Missing, Dump(1)}
    /\ fs_chunk \in {Missing, File(<<ObjectLine(Obj(1)), ObjectLine(Obj(2)), ObjectLine(Obj(3))>>),
                     File(<<ObjectLine(Obj(1)), ObjectLine(Obj(1))>>),
                     File(<<ObjectLine(Obj(1)), NonObjectLine>>)}
    /\ fs_sidecar = Missing
    /\ fs_locked \in BOOLEAN
    /\ db \in {NoDb, OldDb}
    /\ b_pc = "idle" /\ bld = NoBuild /\ b_ret = "none" /\ b_src = NoSource /\ b_old = NoDb /\ v_ret = "none"
    /\ cli_pc = "ready" /\ cli_in = Args("") /\ cli_loc = NoLocals /\ cli_out = NoOutput /\ cli_run = 0

\* ------------------------------------------------------------------------
\* cli/stale_check.py
\* ------------------------------------------------------------------------

\* the text of a derived manifest as json.loads reads it: not JSON, a JSON
\* value that is no object, or an object with the value its key
\* canonical_dump_sha256 holds (<<>> when the key is absent)
DerivedText(kind, recorded) == [kind |-> kind, recorded |-> recorded]

\* the empty string as the value of canonical_dump_sha256
EmptyText == [alg |-> "", of |-> <<>>]

\* check_stale_index(index_path) in the directory dir: the exception that
\* leaves it ("" when it returns) and what it wrote to stderr. The index is
\* named base + suffix; the manifests are looked up by the base name and, when
\* one of the two is missing, by the one *.derived_index.json and the one
\* *.dump_index.json of the directory.
CheckStaleIndexResult(index, dir) ==
    LET result(raised, stderr) == [raised |-> raised, stderr |-> stderr]
        bases(kind) == {b \in DOMAIN dir : dir[b][kind].present}
        byName == index.base \in DOMAIN dir /\ dir[index.base].derived.present /\ dir[index.base].dump.present
        fallback == Cardinality(bases("derived")) = 1 /\ Cardinality(bases("dump")) = 1
        derived_path == IF byName THEN index.base ELSE CHOOSE b \in bases("derived") : TRUE
        dump_path == IF byName THEN index.base ELSE CHOOSE b \in bases("dump") : TRUE
        derived_data == dir[derived_path].derived.data[1]
        recorded_sha == derived_data.recorded
        actual_sha == ComputeFileSha256(dir[dump_path].dump)
    IN  IF index.suffix \notin {".chunk_index.index.sqlite", ".index.sqlite"} THEN result("", <<>>)
        ELSE IF ~byName /\ ~fallback THEN result("", <<>>)
        ELSE IF derived_data.kind = "invalid" THEN result("", <<>>)
        ELSE IF derived_data.kind # "object" THEN result("AttributeError", <<>>)
        ELSE IF recorded_sha = <<>> \/ recorded_sha = <<EmptyText>> THEN result("", <<>>)
        ELSE IF recorded_sha[1] # actual_sha THEN result("", <<TextLine("Warning: The index appears to be stale.")>>)
        ELSE result("", <<>>)

\* the directories of the check: manifests under the index's base name "run",
\* and under the names "foo" and "bar" for the fallback
StaleDirs ==
    LET D1 == <<1>>
        D2 == <<2>>
        Derived == {Missing, File(<<DerivedText("invalid", <<>>)>>), File(<<DerivedText("list", <<>>)>>),
                    File(<<DerivedText("object", <<>>)>>), File(<<DerivedText("object", <<EmptyText>>)>>),
                    File(<<DerivedText("object", <<Sha256(D1)>>)>>)}
        Dumps12 == {Missing, File(D1), File(D2)}
    IN  {[b \in {"run", "foo", "bar"} |->
            CASE b = "run" -> [derived |-> a, dump |-> d]
              [] b = "foo" -> [derived |-> f, dump |-> g]
              [] b = "bar" -> [derived |-> h, dump |-> Missing]] :
         a \in Derived, d \in Dumps12,
         f \in {Missing, File(<<DerivedText("object", <<Sha256(D1)>>)>>), File(<<DerivedText("list", <<>>)>>)},
         g \in Dumps12, h \in {Missing, File(<<DerivedText("object", <<Sha256(D1)>>)>>)}}

StaleIdle == st_pc = "off" /\ st_in = <<>> /\ st_dir = <<>> /\ st_out = <<>>

StaleInit ==
    /\ st_pc = "ready"
    /\ st_in \in {[base |-> "run", suffix |-> ".chunk_index.index.sqlite"],
                  [base |-> "x", suffix |-> ".index.sqlite"],
                  [base |-> "run", suffix |-> ".txt"]}
    /\ st_dir \in StaleDirs
    /\ st_out = <<>>

\* a call of check_stale_index; it opens files for reading only
CheckStaleIndex ==
    /\ st_pc = "ready"
    /\ st_out' = CheckStaleIndexResult(st_in, st_dir)
    /\ st_pc' = "done"
    /\ UNCHANGED <<st_in, st_dir>>

\* Each specification runs one component; the others stay idle.

InitChunker == ChunkerInit /\ IndexIdle /\ QueryIdle /\ RangeIdle /\ RedactIdle /\ CliIdle /\ StaleIdle /\ ChunkSetIdle /\ CompareIdle /\ LogIdle /\ JobIdle

NextChunker == ChunkFile /\ UNCHANGED <<indexVars, queryVars, rangeVars, redactVars, cliVars, staleVars, chunkSetVars, compareVars, logVars, jobVars>>

SpecChunker == InitChunker /\ [][NextChunker]_vars

InitChunkSet == ChunkerIdle /\ IndexIdle /\ QueryIdle /\ RangeIdle /\ RedactIdle /\ CliIdle /\ StaleIdle /\ ChunkSetInit /\ CompareIdle /\ LogIdle /\ JobIdle

\* chunk_file, called for one file after the other
NextChunkSet == ChunkNextFile /\ UNCHANGED <<chunkerVars, indexVars, queryVars, rangeVars, redactVars, cliVars, staleVars, compareVars, logVars, jobVars>>

SpecChunkSet == InitChunkSet /\ [][NextChunkSet]_vars

InitIndex == ChunkerIdle /\ IndexInit /\ QueryIdle /\ RangeIdle /\ RedactIdle /\ CliIdle /\ StaleIdle /\ ChunkSetIdle /\ CompareIdle /\ LogIdle /\ JobIdle

NextIndex ==
    \/ BuildStart /\ UNCHANGED <<chunkerVars, queryVars, rangeVars, redactVars, cliVars, staleVars, chunkSetVars, compareVars, logVars, jobVars>>
    \/ BuildLine /\ UNCHANGED <<chunkerVars, queryVars, rangeVars, redactVars, cliVars, staleVars, chunkSetVars, compareVars, logVars, jobVars>>
    \/ BuildFinish /\ UNCHANGED <<chunkerVars, queryVars, rangeVars, redactVars, cliVars, staleVars, chunkSetVars, compareVars, logVars, jobVars>>
    \/ VerifyIndex /\ UNCHANGED <<chunkerVars, queryVars, rangeVars, redactVars, cliVars, staleVars, chunkSetVars, compareVars, logVars, jobVars>>
    \/ WriteDump /\ UNCHANGED <<chunkerVars, queryVars, rangeVars, redactVars, cliVars, staleVars, chunkSetVars, compareVars, logVars, jobVars>>
    \/ WriteChunk /\ UNCHANGED <<chunkerVars, queryVars, rangeVars, redactVars, cliVars, staleVars, chunkSetVars, compareVars, logVars, jobVars>>

SpecIndex == InitIndex /\ [][NextIndex]_vars

InitRebuild == ChunkerIdle /\ RebuildInit /\ QueryIdle /\ RangeIdle /\ RedactIdle /\ CliIdle /\ StaleIdle /\ ChunkSetIdle /\ CompareIdle /\ LogIdle /\ JobIdle

SpecRebuild == InitRebuild /\ [][NextIndex]_vars

InitIngest == ChunkerIdle /\ IngestInit /\ QueryIdle /\ RangeIdle /\ RedactIdle /\ CliIdle /\ StaleIdle /\ ChunkSetIdle /\ CompareIdle /\ LogIdle /\ JobIdle

\* one run of build_index
NextIngest ==
    \/ b_ret = "none" /\ BuildStart /\ UNCHANGED <<chunkerVars, queryVars, rangeVars, redactVars, cliVars, staleVars, chunkSetVars, compareVars, logVars, jobVars>>
    \/ BuildLine /\ UNCHANGED <<chunkerVars, queryVars, rangeVars, redactVars, cliVars, staleVars, chunkSetVars, compareVars, logVars, jobVars>>
    \/ BuildFinish /\ UNCHANGED <<chunkerVars, queryVars, rangeVars, redactVars, cliVars, staleVars, chunkSetVars, compareVars, logVars, jobVars>>

SpecIngest == InitIngest /\ [][NextIngest]_vars

InitQuery == ChunkerIdle /\ QueryInit /\ RangeIdle /\ RedactIdle /\ CliIdle /\ StaleIdle /\ ChunkSetIdle /\ CompareIdle /\ LogIdle /\ JobIdle

\* one run of build_index and then one query, made twice; with no chunk
\* stream to build from, the query may also come first
NextQuery ==
    \/ b_ret = "none" /\ q_pc = "ready" /\ BuildStart /\ UNCHANGED <<chunkerVars, queryVars, rangeVars, redactVars, cliVars, staleVars, chunkSetVars, compareVars, logVars, jobVars>>
    \/ BuildLine /\ UNCHANGED <<chunkerVars, queryVars, rangeVars, redactVars, cliVars, staleVars, chunkSetVars, compareVars, logVars, jobVars>>
    \/ BuildFinish /\ UNCHANGED <<chunkerVars, queryVars, rangeVars, redactVars, cliVars, staleVars, chunkSetVars, compareVars, logVars, jobVars>>
    \/ (b_ret # "none" \/ ~fs_chunk.present) /\ Query /\ UNCHANGED <<chunkerVars, rangeVars, redactVars, cliVars, staleVars, chunkSetVars, compareVars, logVars, jobVars>>
    \/ Requery /\ UNCHANGED <<chunkerVars, rangeVars, redactVars, cliVars, staleVars, chunkSetVars, compareVars, logVars, jobVars>>

SpecQuery == InitQuery /\ [][NextQuery]_vars

InitCompare == ChunkerIdle /\ CompareInit /\ QueryIdle /\ RangeIdle /\ RedactIdle /\ CliIdle /\ StaleIdle /\ ChunkSetIdle /\ LogIdle /\ JobIdle

\* one run of build_index, and one call made through the three functions
NextCompare ==
    \/ b_ret = "none" /\ qc_pc = "ready" /\ BuildStart /\ UNCHANGED <<chunkerVars, queryVars, rangeVars, redactVars, cliVars, staleVars, chunkSetVars, compareVars, logVars, jobVars>>
    \/ BuildLine /\ UNCHANGED <<chunkerVars, queryVars, rangeVars, redactVars, cliVars, staleVars, chunkSetVars, compareVars, logVars, jobVars>>
    \/ BuildFinish /\ UNCHANGED <<chunkerVars, queryVars, rangeVars, redactVars, cliVars, staleVars, chunkSetVars, compareVars, logVars, jobVars>>
    \/ CompareQueries /\ UNCHANGED <<chunkerVars, queryVars, rangeVars, redactVars, cliVars, staleVars, chunkSetVars, logVars, jobVars>>

SpecCompare == InitCompare /\ [][NextCompare]_vars

InitLog == ChunkerIdle /\ IndexIdle /\ QueryIdle /\ RangeIdle /\ RedactIdle /\ CliIdle /\ StaleIdle /\ ChunkSetIdle /\ CompareIdle /\ LogInit /\ JobIdle

\* appends to the log of a job, its reader, and calls of read_log_chunk
NextLog ==
    \/ LogAppend /\ UNCHANGED <<chunkerVars, indexVars, queryVars, rangeVars, redactVars, cliVars, staleVars, chunkSetVars, compareVars, jobVars>>
    \/ LogPoll /\ UNCHANGED <<chunkerVars, indexVars, queryVars, rangeVars, redactVars, cliVars, staleVars, chunkSetVars, compareVars, jobVars>>
    \/ LogProbe /\ UNCHANGED <<chunkerVars, indexVars, queryVars, rangeVars, redactVars, cliVars, staleVars, chunkSetVars, compareVars, jobVars>>

SpecLog == InitLog /\ [][NextLog]_vars

InitJobs == ChunkerIdle /\ IndexIdle /\ QueryIdle /\ RangeIdle /\ RedactIdle /\ CliIdle /\ StaleIdle /\ ChunkSetIdle /\ CompareIdle /\ LogIdle /\ JobInit

\* one call of cleanup_jobs
NextJobs ==
    \/ CleanupJobs /\ UNCHANGED <<chunkerVars, indexVars, queryVars, rangeVars, redactVars, cliVars, staleVars, chunkSetVars, compareVars, logVars>>

SpecJobs == InitJobs /\ [][NextJobs]_vars

InitRange == ChunkerIdle /\ IndexIdle /\ QueryIdle /\ RangeInit /\ RedactIdle /\ CliIdle /\ StaleIdle /\ ChunkSetIdle /\ CompareIdle /\ LogIdle /\ JobIdle

\* one call of resolve_range_ref
NextRange == Resolve /\ UNCHANGED <<chunkerVars, indexVars, queryVars, redactVars, cliVars, staleVars, chunkSetVars, compareVars, logVars, jobVars>>

SpecRange == InitRange /\ [][NextRange]_vars

InitRedact == ChunkerIdle /\ IndexIdle /\ QueryIdle /\ RangeIdle /\ RedactInit /\ CliIdle /\ StaleIdle /\ ChunkSetIdle /\ CompareIdle /\ LogIdle /\ JobIdle

\* redact, and redact again on what it returned
NextRedact ==
    \/ RedactOnce /\ UNCHANGED <<chunkerVars, indexVars, queryVars, rangeVars, cliVars, staleVars, chunkSetVars, compareVars, logVars, jobVars>>
    \/ RedactAgain /\ UNCHANGED <<chunkerVars, indexVars, queryVars, rangeVars, cliVars, staleVars, chunkSetVars, compareVars, logVars, jobVars>>

SpecRedact == InitRedact /\ [][NextRedact]_vars

InitCli == ChunkerIdle /\ CliInit /\ QueryIdle /\ RangeIdle /\ RedactIdle /\ StaleIdle /\ ChunkSetIdle /\ CompareIdle /\ LogIdle /\ JobIdle

\* up to MaxRuns processes, one after the other; run_index calls build_index
NextCli ==
    \/ Main /\ UNCHANGED <<chunkerVars, queryVars, rangeVars, redactVars, staleVars, chunkSetVars, compareVars, logVars, jobVars>>
    \/ RunIndex /\ UNCHANGED <<chunkerVars, queryVars, rangeVars, redactVars, staleVars, chunkSetVars, compareVars, logVars, jobVars>>
    \/ cli_pc = "build" /\ b_ret = "none" /\ BuildStart /\ UNCHANGED <<chunkerVars, queryVars, rangeVars, redactVars, cliVars, staleVars, chunkSetVars, compareVars, logVars, jobVars>>
    \/ cli_pc = "build" /\ BuildLine /\ UNCHANGED <<chunkerVars, queryVars, rangeVars, redactVars, cliVars, staleVars, chunkSetVars, compareVars, logVars, jobVars>>
    \/ cli_pc = "build" /\ BuildFinish /\ UNCHANGED <<chunkerVars, queryVars, rangeVars, redactVars, cliVars, staleVars, chunkSetVars, compareVars, logVars, jobVars>>
    \/ RunIndexDone /\ UNCHANGED <<chunkerVars, queryVars, rangeVars, redactVars, staleVars, chunkSetVars, compareVars, logVars, jobVars>>
    \/ RunQuery /\ UNCHANGED <<chunkerVars, queryVars, rangeVars, redactVars, staleVars, chunkSetVars, compareVars, logVars, jobVars>>
    \/ RunEval /\ UNCHANGED <<chunkerVars, queryVars, rangeVars, redactVars, staleVars, chunkSetVars, compareVars, logVars, jobVars>>
    \/ EvalQuery /\ UNCHANGED <<chunkerVars, queryVars, rangeVars, redactVars, staleVars, chunkSetVars, compareVars, logVars, jobVars>>
    \/ EvalDone /\ UNCHANGED <<chunkerVars, queryVars, rangeVars, redactVars, staleVars, chunkSetVars, compareVars, logVars, jobVars>>
    \/ CmdRangeGet /\ UNCHANGED <<chunkerVars, queryVars, rangeVars, redactVars, staleVars, chunkSetVars, compareVars, logVars, jobVars>>

SpecCli == InitCli /\ [][NextCli]_vars

InitStale == ChunkerIdle /\ IndexIdle /\ QueryIdle /\ RangeIdle /\ RedactIdle /\ CliIdle /\ StaleInit /\ ChunkSetIdle /\ CompareIdle /\ LogIdle /\ JobIdle

\* one call of check_stale_index
NextStale == CheckStaleIndex /\ UNCHANGED <<chunkerVars, indexVars, queryVars, rangeVars, redactVars, cliVars, chunkSetVars, compareVars, logVars, jobVars>>

SpecStale == InitStale /\ [][NextStale]_vars

\* ------------------------------------------------------------------------
\* Claims about the chunker
\* ------------------------------------------------------------------------

\* the UTF-8 bytes of the content of the call
ContentBytes == Utf8Str(ch_in.content)

\* C1: the chunks chunk_file returns partition the content's UTF-8 bytes in
\* order, without gap or overlap, starting at byte_offset_base; every chunk is
\* non-empty and its content_sha256 and size_bytes are those of exactly its
\* byte range; empty content yields no chunk.
C1_Partition ==
    ch_pc = "done" =>
        LET b == ch_in.byte_offset_base
            n == Len(ch_out)
        IN  /\ (ch_in.content = <<>>) <=> (n = 0)
            /\ n > 0 => /\ ch_out[1].byte_offset_start = b
                        /\ ch_out[n].byte_offset_end = b + Len(ContentBytes)
            /\ \A k \in 1..(n - 1) :
                   ch_out[k].byte_offset_end = ch_out[k + 1].byte_offset_start
            /\ \A k \in 1..n :
                   LET c == ch_out[k]
                       range == SubSeq(ContentBytes, c.byte_offset_start - b + 1,
                                       c.byte_offset_end - b)
                   IN  /\ c.byte_offset_start < c.byte_offset_end
                       /\ c.content_sha256 = Sha256(range)
                       /\ c.size_bytes = Len(range)
                       /\ c.size_bytes = c.byte_offset_end - c.byte_offset_start

\* C1 witness: a call on content with a multi-byte character that returned
\* at least two chunks from a non-zero base
C1_Witness ==
    /\ ch_pc = "done"
    /\ Len(ch_out) >= 2
    /\ ch_in.byte_offset_base > 0
    /\ \E k \in 1..Len(ch_in.content) : ch_in.content[k] = "e2"

\* C12: the line numbers of the chunks of one call are 1-based and contiguous:
\* the first chunk has line_start = 1, line_end - line_start + 1 of a chunk
\* is the number of lines of the content that lie in its byte range, and
\* every following chunk starts at the line after the one the chunk before
\* it ends with.
C12_LinesContiguous ==
    ch_pc = "done" =>
        LET b == ch_in.byte_offset_base
            n == Len(ch_out)
            lines == SplitLines(ch_in.content)
            startOf(k) == b + Len(Utf8Str(Flatten(SubSeq(lines, 1, k - 1))))
            contained(c) == {k \in 1..Len(lines) :
                                /\ c.byte_offset_start <= startOf(k)
                                /\ startOf(k) < c.byte_offset_end}
        IN  /\ n > 0 => ch_out[1].line_start = 1
            /\ \A k \in 1..n :
                   ch_out[k].line_end - ch_out[k].line_start + 1 = Cardinality(contained(ch_out[k]))
            /\ \A k \in 1..(n - 1) : ch_out[k + 1].line_start = ch_out[k].line_end + 1

\* a call that returned a chunk of two lines, the first ending in CR LF, and
\* a chunk after it
C12_Witness ==
    /\ ch_pc = "done"
    /\ Len(ch_out) >= 2
    /\ ch_out[1].line_end = 2
    /\ ch_out[2].line_start = 3
    /\ SubSeq(ch_in.content, 1, 2) = <<"CR", "LF">>

\* C22: chunk_file closes the current chunk before a line exactly when the
\* buffer holds at least one line and that line would take it over max_size
\* bytes or max_lines lines. So a chunk starts at line j > 1 exactly when the
\* lines from the start of the chunk of line j - 1 up to line j - 1, together
\* with line j, exceed one of the limits; every chunk is a run of whole lines
\* of at most max_lines lines, is larger than max_size only as a single line,
\* and a chunk that is not the last cannot take the line after it.
C22_GreedyFill ==
    ch_pc = "done" =>
        LET lines == SplitLines(ch_in.content)
            n == Len(ch_out)
            bytes(a, b) == Len(Utf8Str(Flatten(SubSeq(lines, a, b))))
            starts == {ch_out[k].line_start : k \in 1..n}
            startOf(j) == CHOOSE a \in starts : a <= j /\ \A b \in starts : b <= j => b <= a
            over(a, j) == bytes(a, j) > ch_in.max_size \/ j - a + 1 > ch_in.max_lines
        IN  /\ \A j \in 2..Len(lines) : (j \in starts) <=> over(startOf(j - 1), j)
            /\ \A k \in 1..n :
                   LET c == ch_out[k]
                       count == c.line_end - c.line_start + 1
                   IN  /\ c.line_start >= 1 /\ c.line_end <= Len(lines) /\ count >= 1
                       /\ c.byte_offset_start = ch_in.byte_offset_base + bytes(1, c.line_start - 1)
                       /\ c.byte_offset_end = ch_in.byte_offset_base + bytes(1, c.line_end)
                       /\ c.content_sha256 = Sha256(Utf8Str(Flatten(SubSeq(lines, c.line_start, c.line_end))))
                       /\ count <= ch_in.max_lines
                       /\ c.size_bytes > ch_in.max_size => count = 1
                       /\ k < n => over(c.line_start, c.line_end + 1)
            /\ n > 0 => ch_out[n].line_end = Len(lines)

\* a call that closed one chunk at the line limit although the next line fits
\* in max_size, closed one because the next line does not fit, and returned a
\* single line longer than max_size as a chunk
C22_Witness ==
    /\ ch_pc = "done"
    /\ Len(ch_out) >= 3
    /\ \E k \in 1..Len(ch_out) : ch_out[k].size_bytes > ch_in.max_size
    /\ \E k \in 1..(Len(ch_out) - 1) :
           /\ ch_out[k].line_end - ch_out[k].line_start + 1 = ch_in.max_lines
           /\ ch_out[k].size_bytes + ch_out[k + 1].size_bytes <= ch_in.max_size
    /\ \E k \in 1..(Len(ch_out) - 1) :
           /\ ch_out[k + 1].line_end = ch_out[k + 1].line_start
           /\ ch_out[k].size_bytes + ch_out[k + 1].size_bytes > ch_in.max_size

\* C27: the string hashed to form a chunk_id determines path, line_start and
\* content_sha256: among the chunks of a set of files with different paths,
\* two chunks with the same hash input are chunks of the same path with the
\* same line_start and the same content hash, so the chunk_ids of the set are
\* pairwise distinct and fit under the primary key of chunks.
C27_ChunkIdsDistinct ==
    LET pathOf(c) == (CHOOSE f \in {cs_in.files[i] : i \in 1..Len(cs_in.files)} : f.file_id = c.file_id).file_path
    IN  \A i, j \in 1..Len(cs_out) :
            /\ cs_out[i].chunk_id.of = cs_out[j].chunk_id.of =>
                   /\ pathOf(cs_out[i]) = pathOf(cs_out[j])
                   /\ cs_out[i].line_start = cs_out[j].line_start
                   /\ cs_out[i].content_sha256 = cs_out[j].content_sha256
            /\ i # j => cs_out[i].chunk_id # cs_out[j].chunk_id

\* C2: every chunk_id is the first 20 hexadecimal characters of
\* sha1(path || str(line_start) || content_sha256), path being file_path when
\* given and file_id otherwise.
C2_ChunkIdIs20Hex ==
    ch_pc = "done" =>
        \A k \in 1..Len(ch_out) :
            LET c    == ch_out[k]
                path == IF ch_in.file_path # <<>> THEN ch_in.file_path ELSE ch_in.file_id
            IN  /\ c.chunk_id = Truncate(Sha1Hex(path \o Str(c.line_start) \o <<c.content_sha256>>), 20)
                /\ c.chunk_id.hexlen = 20

\* C3: once build_index(D, C, db) has returned, verify_index(db, D, C) answers
\* true exactly as long as the dump file and the chunk file still hold the
\* bytes the build read: true right after the build, false after a later
\* change of either file without a rebuild.
C3_VerifyTracksSources ==
    (b_pc = "idle" /\ b_ret = "returned" /\ v_ret # "none") =>
        (v_ret = "true" <=> (fs_dump = b_src.dump /\ fs_chunk = b_src.chunk))

\* a build over two chunks returned, the chunk file alone was rewritten
\* afterwards, and verify_index answered false
C3_Witness ==
    /\ b_pc = "idle" /\ b_ret = "returned" /\ v_ret = "false"
    /\ Len(db.chunks) = 2
    /\ fs_dump = b_src.dump /\ fs_dump.present
    /\ fs_chunk # b_src.chunk /\ fs_chunk.present

\* C26: verify_index answers false whenever the dump file or the chunk file
\* is missing or unreadable when it is called, whatever the build recorded;
\* when it answers true, both recorded values are SHA-256 digests of files it
\* could read.
C26_MissingFileFailsVerify ==
    (b_pc = "idle" /\ v_ret # "none") =>
        /\ (~fs_dump.present \/ ~fs_chunk.present) => v_ret = "false"
        /\ v_ret = "true" => /\ db.meta.dump_sha256 = Sha256(fs_dump.data)
                             /\ db.meta.chunk_index_sha256 = Sha256(fs_chunk.data)

\* the committed database holds neither hash, and verify_index answers false
\* on it whatever the dump and chunk files are
NoHashCommitted ==
    /\ db.exists => "dump_sha256" \notin db.meta.keys /\ "chunk_index_sha256" \notin db.meta.keys
    /\ \A d \in Dumps, c \in SmallStreams : ~VerifyIndexResult(db, d, c)

\* C23 as stated: build_index commits once, at the end: while a build is
\* running, and after a build that failed at any point, the database at
\* db_path holds no committed dump_sha256 or chunk_index_sha256, and
\* verify_index answers false on it.
C23_NoHashBeforeCommit ==
    (b_pc = "ingest" \/ b_ret \notin {"none", "returned"}) => NoHashCommitted

\* C23, amended: the same, for a build that got past the removal of the file
\* it found at db_path; a build that fails because it cannot remove that file
\* leaves it as it was.
C23_NoHashBeforeCommitOnceRemoved ==
    /\ (b_pc = "ingest" \/ b_ret \notin {"none", "returned", "RuntimeError"}) => NoHashCommitted
    /\ b_ret = "RuntimeError" => db = b_old /\ db.exists

\* a rebuild over an index with both hashes failed on a repeated chunk_id
\* after the old file was removed
C23_Witness ==
    /\ b_pc = "idle" /\ b_ret = "IntegrityError"
    /\ b_old.exists /\ "dump_sha256" \in b_old.meta.keys /\ Len(b_old.chunks) > 0
    /\ db = EmptyDb

\* C8: whatever the lines of the chunk stream hold, build_index returns, and
\* then every line was counted exactly once (total_lines = empty_lines +
\* invalid_json_lines + missing_chunk_id_lines + ingested_chunks_count) and
\* chunks and chunks_fts each hold ingested_chunks_count rows.
C8_TolerantIngest ==
    (b_pc = "idle" /\ b_ret # "none") =>
        LET st == db.meta.stats
        IN  /\ b_ret = "returned"
            /\ st.total_lines = Len(fs_chunk.data)
            /\ st.total_lines = st.empty_lines + st.invalid_json_lines
                                  + st.missing_chunk_id_lines + st.ingested_chunks_count
            /\ Len(db.chunks) = st.ingested_chunks_count
            /\ Len(db.chunks_fts) = st.ingested_chunks_count

\* C17: when build_index returns, the index holds only rows made from the
\* chunk stream and the sidecar it read and the hashes of the files it read,
\* whatever the file at db_path held before; and when that file was a finished
\* index with the same two hashes, the new chunks, chunks_fts and files rows
\* and the two recorded hashes equal the old ones.
C17_RebuildFromScratch ==
    (b_pc = "idle" /\ b_ret = "returned") =>
        LET lines == b_src.chunk.data
            objs  == {lines[k].obj[1] : k \in {n \in 1..Len(lines) : lines[n].kind = "object"}}
            same  == /\ b_old.meta.keys # {}
                     /\ b_old.meta.dump_sha256 = ComputeFileSha256(b_src.dump)
                     /\ b_old.meta.chunk_index_sha256 = ComputeFileSha256(b_src.chunk)
        IN  /\ \A i \in 1..Len(db.chunks) : \E o \in objs : db.chunks[i] = ChunkRow(o)
            /\ \A i \in 1..Len(db.chunks_fts) : \E o \in objs : db.chunks_fts[i] = FtsRow(o)
            /\ \A i \in 1..Len(db.files) :
                  fs_sidecar.present /\ \E k \in 1..Len(fs_sidecar.data) : db.files[i] = FileRow(fs_sidecar.data[k])
            /\ db.meta.dump_sha256 = ComputeFileSha256(b_src.dump)
            /\ db.meta.chunk_index_sha256 = ComputeFileSha256(b_src.chunk)
            /\ same => /\ db.chunks = b_old.chunks
                       /\ db.chunks_fts = b_old.chunks_fts
                       /\ db.files = b_old.files

\* a build returned over an index that held two chunks and files of a sidecar
\* the new dump_index no longer names; the new index holds one chunk and no file
C17_Witness ==
    /\ b_pc = "idle" /\ b_ret = "returned"
    /\ Len(b_old.chunks) = 2 /\ b_old.files # <<>> /\ b_old.meta.keys # {}
    /\ Len(db.chunks) = 1 /\ db.files = <<>>
    /\ b_old.meta.chunk_index_sha256 # db.meta.chunk_index_sha256


\* ------------------------------------------------------------------------
\* Claims about retrieval/query_core.py
\* ------------------------------------------------------------------------

Answered == q_pc \in {"ran", "done"}

FtsMode == q_in.text # <<>>

HitIds(outcome) ==
    IF outcome.kind = "returned"
    THEN [i \in 1..Len(outcome.out[1].results) |-> outcome.out[1].results[i].chunk_id]
    ELSE <<>>

\* hit g sorts strictly before hit h
HitLess(g, h) ==
    \/ FtsMode /\ g.score < h.score
    \/ /\ FtsMode => g.score = h.score
       /\ \/ TextLess(g.repo_id, h.repo_id)
          \/ /\ g.repo_id = h.repo_id
             /\ \/ TextLess(g.path, h.path)
                \/ g.path = h.path /\ g.range[1] < h.range[1]

EndsWith(s, suffix) ==
    Len(suffix) <= Len(s) /\ SubSeq(s, Len(s) - Len(suffix) + 1, Len(s)) = suffix

SatisfiesFilters(row, f) ==
    /\ f.repo = <<>> \/ row.repo_id = f.repo
    /\ f.path = <<>> \/ Contains(row.path_norm, Lower(f.path))
    /\ f.ext = <<>> \/ EndsWith(row.path_norm, Lower(IF Head(f.ext) = "." THEN f.ext ELSE <<".">> \o f.ext))
    /\ f.layer = "" \/ row.layer = f.layer
    /\ f.artifact_type = "" \/ row.artifact_type = f.artifact_type

\* C6: the chunks execute_query returns are, up to the limit k, exactly the
\* chunks that satisfy every non-empty filter (repo equal, path filter a
\* literal substring without regard to case, extension a suffix with or
\* without its dot, layer and artifact_type equal), in fts mode in
\* conjunction with the text match.
C6_FiltersAsClaimed ==
    (Answered /\ q_out.kind = "returned") =>
        LET sat == {k \in 1..Len(db.chunks) :
                      /\ SatisfiesFilters(db.chunks[k], q_in.filters)
                      /\ FtsMode => \E j \in 1..Len(db.chunks_fts) :
                                       /\ db.chunks_fts[j].chunk_id = db.chunks[k].chunk_id
                                       /\ FtsMatch(db.chunks_fts[j], Tokens(q_in.text))}
            ids == HitIds(q_out)
        IN  /\ \A i \in 1..Len(ids) : \E k \in sat : db.chunks[k].chunk_id = ids[i]
            /\ Len(ids) = Min(q_in.k, Cardinality(sat))

\* what makes the engine fail a call, told from the index, the engine and the
\* query text rather than from the message
FailsNoFtsTable == FtsMode /\ "chunks_fts" \notin db.tables
FailsNoModule   == FtsMode /\ ~FailsNoFtsTable /\ q_in.env = "no_fts5"
FailsNoChunks   == ~FailsNoFtsTable /\ ~FailsNoModule /\ "chunks" \notin db.tables
FailsNoBm25     == FtsMode /\ {"chunks", "chunks_fts"} \subseteq db.tables /\ q_in.env = "no_bm25"
FailsSyntax     == /\ FtsMode /\ {"chunks", "chunks_fts"} \subseteq db.tables /\ q_in.env = "ok"
                   /\ q_in.text \in {<<" ">>, <<"(">>}
FailsNoColumn   == /\ FtsMode /\ {"chunks", "chunks_fts"} \subseteq db.tables /\ q_in.env = "ok"
                   /\ q_in.text = <<"a", "-", "b">>

Raised(message) ==
    q_out.kind = "raised" /\ q_out.exc = "RuntimeError" /\ q_out.message = message /\ q_out.out = <<>>

\* C9 as stated: no failure of the engine during execute_query is raised as
\* an exception; each is handed back as a structured error result (a syntax
\* error as one of kind syntax_error).
C9_NeverRaised == Answered => q_out.kind = "returned"

\* C9: every failure of the engine during execute_query leaves the call as a
\* RuntimeError and no result is returned; its message tells a missing FTS5
\* module, a missing chunks_fts table, a missing bm25 function, an FTS syntax
\* error and any other database error apart. A call the engine does not fail
\* returns.
C9_RaisedClassified ==
    Answered =>
        /\ FailsNoModule => Raised("SQLite FTS5 extension missing in this environment.")
        /\ FailsNoFtsTable => Raised("FTS table missing; likely old or corrupt index. Reindex required.")
        /\ FailsNoBm25 => Raised("SQLite FTS5 auxiliary function 'bm25' missing.")
        /\ FailsSyntax => Raised("FTS syntax error in query")
        /\ (FailsNoColumn \/ FailsNoChunks) => Raised("Database error executing query")
        /\ ~(FailsNoModule \/ FailsNoFtsTable \/ FailsNoBm25 \/ FailsSyntax \/ FailsNoColumn \/ FailsNoChunks)
              => q_out.kind = "returned" /\ Len(q_out.out) = 1

\* a query the FTS5 grammar rejects, against a built index that holds chunks
C9_Witness ==
    /\ Answered /\ b_ret = "returned" /\ Len(db.chunks) >= 2
    /\ FailsSyntax /\ Raised("FTS syntax error in query")

C21_QueryLeavesStore ==
    [][q_pc' # q_pc => /\ db' = db
                       /\ UNCHANGED fsVars
                       /\ q_pc' = "done" => q_out2' = q_out']_vars

\* what a call's outcome says of hits, engine, mode and failure
Essence(outcome) ==
    IF outcome.kind = "returned"
    THEN [kind |-> "returned", message |-> "",
          engine |-> outcome.out[1].engine, query_mode |-> outcome.out[1].query_mode,
          hits |-> [i \in 1..Len(outcome.out[1].results) |->
                      [chunk_id |-> outcome.out[1].results[i].chunk_id,
                       path |-> outcome.out[1].results[i].path,
                       range |-> outcome.out[1].results[i].range,
                       score |-> outcome.out[1].results[i].score]]]
    ELSE [kind |-> "raised", message |-> outcome.message, engine |-> "", query_mode |-> "", hits |-> <<>>]

\* C29: for every index, query text, k and filters, cmd_query.execute_query
\* and eval_core.execute_query end as query_core.execute_query does: the same
\* hits in the same order, the same engine and query_mode, or the same
\* failure.
C29_ThreeQueriesAgree ==
    qc_pc = "done" =>
        /\ Essence(qc_out.cmd) = Essence(qc_out.core)
        /\ Essence(qc_out.eval) = Essence(qc_out.core)

\* C16: every hit execute_query returns carries why.query_terms = [query_text],
\* why.applied_filter_keys = the keys of the filters with a non-empty value,
\* and the rank feature bm25 (fts mode) or metadata = 0 (metadata mode); no hit
\* has a range_ref.
C16_WhyAsClaimed ==
    (Answered /\ q_out.kind = "returned") =>
        \A i \in 1..Len(q_out.out[1].results) :
            LET hit == q_out.out[1].results[i]
                keys == {key \in DOMAIN q_in.filters : q_in.filters[key] # (IF key \in {"layer", "artifact_type"} THEN "" ELSE <<>>)}
            IN  /\ "range_ref" \notin DOMAIN hit
                /\ hit.why.rank_features.name = IF FtsMode THEN "bm25" ELSE "metadata"
                /\ ~FtsMode => hit.why.rank_features.value = 0
                /\ "query_terms" \in DOMAIN hit.why
                /\ hit.why.query_terms = <<q_in.text>>
                /\ "applied_filter_keys" \in DOMAIN hit.why
                /\ {hit.why.applied_filter_keys[j] : j \in 1..Len(hit.why.applied_filter_keys)} = keys


\* ------------------------------------------------------------------------
\* Claims about the range resolver
\* ------------------------------------------------------------------------

\* the texts a span of an artifact can be the encoding of
SubTexts ==
    UNION {{SubSeq(t, i, j) : i \in 1..(Len(t) + 1), j \in 0..Len(t)} : t \in ArtifactTexts}

\* the call had a manifest that gives an existing file for the role of the
\* ref, a ref the schema did not turn down and whose file_path, if it has
\* one, is that file, and a span that lies within the file
InSpan ==
    /\ rr_pc = "done"
    /\ rr_manifest.exists
    /\ rr_manifest.format \in {"bundle", "dump_index"}
    /\ rr_schema # "rejects"
    /\ rr_in.artifact_role \in ArtifactRoles
    /\ TargetPath(rr_manifest, rr_in.artifact_role) # ""
    /\ rr_in.file_path \in {"", TargetPath(rr_manifest, rr_in.artifact_role)}
    /\ rr_files[TargetPath(rr_manifest, rr_in.artifact_role)].present
    /\ rr_in.start_byte # <<>> /\ rr_in.end_byte # <<>>
    /\ 0 <= rr_in.start_byte[1]
    /\ rr_in.start_byte[1] <= rr_in.end_byte[1]
    /\ rr_in.end_byte[1] <= Len(rr_files[TargetPath(rr_manifest, rr_in.artifact_role)].data)

\* C4: for a manifest that lists an artifact with role r and a span
\* 0 <= a <= b <= size whose bytes artifact[a:b] are valid UTF-8,
\* resolve_range_ref with the hash of artifact[a:b] returns the text whose
\* encoding is artifact[a:b], bytes = b - a, the given hash as sha256 and
\* provenance.artifact_role = r; with any other hash it raises the hash
\* mismatch error and returns nothing.
C4_RoundTrip ==
    InSpan =>
        LET artifact == rr_files[TargetPath(rr_manifest, rr_in.artifact_role)].data
            a == rr_in.start_byte[1]
            b == rr_in.end_byte[1]
            span == SubSeq(artifact, a + 1, b)
            texts == {t \in SubTexts : Utf8Str(t) = span}
        IN  /\ (texts # {} /\ rr_in.content_sha256 = <<Sha256(span)>>) =>
                /\ rr_out.kind = "returned"
                /\ rr_out.value[1].text \in texts
                /\ rr_out.value[1].bytes = b - a
                /\ rr_out.value[1].sha256 = rr_in.content_sha256[1]
                /\ rr_out.value[1].provenance.artifact_role = rr_in.artifact_role
            /\ (rr_in.content_sha256 # <<>> /\ rr_in.content_sha256[1] # Sha256(span)) =>
                /\ rr_out.kind = "raised"
                /\ rr_out.exc = "ValueError"
                /\ rr_out.message = "Hash mismatch"
                /\ rr_out.value = <<>>

\* a span in the middle of an artifact that holds a two-byte character,
\* resolved with its hash against a manifest of three artifacts
C4_Witness ==
    /\ InSpan
    /\ Len(rr_manifest.artifacts) = 3
    /\ rr_in.start_byte = <<2>> /\ rr_in.end_byte = <<4>>
    /\ rr_in.content_sha256 = <<Sha256(<<195, 169>>)>>
    /\ rr_out.kind = "returned"
    /\ rr_out.value[1].text = <<"e2">>
    /\ rr_out.value[1].bytes = 2

\* the call came to the bounds check: the steps before it passed
AtBoundsCheck ==
    /\ rr_pc = "done"
    /\ rr_manifest.exists
    /\ rr_manifest.format \in {"bundle", "dump_index"}
    /\ rr_schema # "rejects"
    /\ rr_in.artifact_role \in ArtifactRoles
    /\ TargetPath(rr_manifest, rr_in.artifact_role) # ""
    /\ rr_in.file_path \in {"", TargetPath(rr_manifest, rr_in.artifact_role)}
    /\ rr_files[TargetPath(rr_manifest, rr_in.artifact_role)].present
    /\ rr_in.start_byte # <<>> /\ rr_in.end_byte # <<>>

\* C11: resolve_range_ref fails with the out-of-bounds error exactly when
\* start_byte < 0, end_byte > size of the file or start_byte > end_byte, and
\* then returns nothing; in every other case what it returns or raises is
\* what the end_byte - start_byte bytes from start_byte on give: their text,
\* count and hash, a hash mismatch when the given hash is not theirs, a
\* decode error when they are no UTF-8. The empty span is accepted.
C11_BoundsExactly ==
    AtBoundsCheck =>
        LET artifact == rr_files[TargetPath(rr_manifest, rr_in.artifact_role)].data
            a == rr_in.start_byte[1]
            b == rr_in.end_byte[1]
            outside == a < 0 \/ b > Len(artifact) \/ a > b
            span == SubSeq(artifact, a + 1, b)
            texts == {t \in SubTexts : Utf8Str(t) = span}
            mismatch == rr_in.content_sha256 # <<>> /\ rr_in.content_sha256[1] # Sha256(span)
        IN  /\ outside <=> (rr_out.kind = "raised" /\ rr_out.message = "Range is out of bounds")
            /\ outside => rr_out.exc = "ValueError" /\ rr_out.value = <<>>
            /\ ~outside =>
                  \/ /\ rr_out.kind = "returned"
                     /\ ~mismatch
                     /\ rr_out.value[1].text \in texts
                     /\ rr_out.value[1].bytes = b - a
                     /\ rr_out.value[1].sha256 = Sha256(span)
                  \/ /\ rr_out.kind = "raised" /\ rr_out.message = "Hash mismatch"
                     /\ mismatch
                  \/ /\ rr_out.kind = "raised"
                     /\ rr_out.message = "Extracted range could not be decoded as UTF-8"
                     /\ ~mismatch /\ texts = {}

\* a span that starts inside the file and ends one byte after its end
C11_Witness ==
    /\ AtBoundsCheck
    /\ rr_in.start_byte = <<1>>
    /\ rr_in.end_byte = <<Len(rr_files[TargetPath(rr_manifest, rr_in.artifact_role)].data) + 1>>
    /\ rr_out.kind = "raised" /\ rr_out.message = "Range is out of bounds"

\* the error messages of the steps of resolve_range_ref with the condition
\* each step fails on, in the order given: the schema check is step 1 when
\* schemaFirst, and comes after the manifest is found otherwise
StepErrors(schemaFirst) ==
    LET path == TargetPath(rr_manifest, rr_in.artifact_role)
        found == path # "" /\ rr_files[path].present
        given == rr_in.start_byte # <<>> /\ rr_in.end_byte # <<>>
        data == rr_files[path].data
        inside == /\ found /\ given
                  /\ 0 <= rr_in.start_byte[1] /\ rr_in.start_byte[1] <= rr_in.end_byte[1]
                  /\ rr_in.end_byte[1] <= Len(data)
        span == SubSeq(data, rr_in.start_byte[1] + 1, rr_in.end_byte[1])
        schema == <<[message |-> "range_ref failed schema", fails |-> rr_schema = "rejects"]>>
        manifest == <<[message |-> "Manifest not found", fails |-> ~rr_manifest.exists]>>
    IN  (IF schemaFirst THEN schema \o manifest ELSE manifest \o schema) \o
        <<[message |-> "Unknown artifact_role", fails |-> rr_in.artifact_role \notin ArtifactRoles],
          [message |-> "Unsupported manifest format", fails |-> rr_manifest.format \notin {"bundle", "dump_index"}],
          [message |-> "Artifact with role not found in manifest", fails |-> path = ""],
          [message |-> "file_path mismatch", fails |-> rr_in.file_path # "" /\ rr_in.file_path # path],
          [message |-> "Resolved artifact file not found", fails |-> path # "" /\ ~rr_files[path].present],
          [message |-> "range_ref must include 'start_byte' and 'end_byte'", fails |-> ~given],
          [message |-> "Range is out of bounds", fails |-> found /\ given /\ ~inside],
          [message |-> "Hash mismatch",
           fails |-> inside /\ rr_in.content_sha256 # <<>> /\ rr_in.content_sha256[1] # Sha256(span)],
          [message |-> "Extracted range could not be decoded as UTF-8",
           fails |-> inside /\ \A t \in SubTexts : Utf8Str(t) # span]>>

\* the call ended with the error of the first step that fails, and returned
\* when none does
FirstErrorReported(steps) ==
    \/ /\ rr_out.kind = "returned"
       /\ \A k \in 1..Len(steps) : ~steps[k].fails
    \/ /\ rr_out.kind = "raised"
       /\ \E k \in 1..Len(steps) :
              /\ steps[k].fails /\ rr_out.message = steps[k].message
              /\ \A j \in 1..(k - 1) : ~steps[j].fails

\* C24: resolve_range_ref validates the range_ref against its schema before
\* it loads the manifest: a ref the schema turns down is rejected with the
\* schema error whatever the manifest is, and every later step's error is
\* reported only when all the steps before it passed.
C24_SchemaBeforeManifest ==
    rr_pc = "done" =>
        /\ rr_schema = "rejects" => rr_out.kind = "raised" /\ rr_out.message = "range_ref failed schema"
        /\ FirstErrorReported(StepErrors(TRUE))

\* the artifacts of the manifest of the call that have the role of the ref
WithRole ==
    {i \in 1..Len(rr_manifest.artifacts) :
        \/ rr_manifest.artifacts[i].role = rr_in.artifact_role
        \/ rr_manifest.format = "dump_index" /\ rr_manifest.artifacts[i].key = rr_in.artifact_role}

\* C28: for a ref with a file_path that came to the file_path check (manifest
\* loaded, schema passed, role known and listed in the manifest),
\* resolve_range_ref raises the file_path mismatch exactly when no artifact of
\* the manifest has both the role and the path of the ref; when an artifact
\* has both, the call ends as it does against a manifest that lists that
\* artifact alone, also when other artifacts have the same role.
C28_FilePathNamesArtifact ==
    (/\ rr_pc = "done" /\ rr_manifest.exists /\ rr_schema # "rejects"
     /\ rr_in.artifact_role \in ArtifactRoles
     /\ rr_manifest.format \in {"bundle", "dump_index"}
     /\ TargetPath(rr_manifest, rr_in.artifact_role) # ""
     /\ rr_in.file_path # "") =>
        LET named == {i \in WithRole : rr_manifest.artifacts[i].path = rr_in.file_path}
        IN  /\ (rr_out.kind = "raised" /\ rr_out.message = "file_path mismatch") <=> named = {}
            /\ \A i \in named :
                   rr_out = ResolveRangeRef([rr_manifest EXCEPT !.artifacts = <<rr_manifest.artifacts[i]>>],
                                            rr_files, rr_in, rr_schema)

\* ------------------------------------------------------------------------
\* Claims about the log of a job
\* ------------------------------------------------------------------------

\* the lines of the log from a given one on, each with its 1-based number
Numbered(lines, skip) ==
    [i \in 1..(IF Len(lines) > skip THEN Len(lines) - skip ELSE 0) |-> <<lines[skip + i], skip + i>>]

\* a line that is one line: no "\r" and no "\n" inside
WholeLine(line) == \A i \in 1..Len(line) : line[i] \notin {"CR", "LF"}

\* read_log_chunk returned the appended lines after the first last_line_id,
\* a negative last_line_id counting as 0, and the reader has every line it
\* could have: each once, in append order, all of them after a poll
LogDelivered ==
    /\ lg_op = "probe" =>
          lg_probe.chunk = Numbered(lg_appended, IF lg_probe.last_line_id > 0 THEN lg_probe.last_line_id ELSE 0)
    /\ Len(lg_got) <= Len(lg_appended)
    /\ lg_got = SubSeq(Numbered(lg_appended, 0), 1, Len(lg_got))
    /\ lg_op = "poll" => Len(lg_got) = Len(lg_appended)

\* C25: read_log_chunk returns the lines after the first last_line_id lines
\* with the ids last_line_id + 1, last_line_id + 2, ..., a negative
\* last_line_id behaving as 0, and a reader that passes the last id it
\* received gets, under any interleaving with append_log_line, every
\* appended line exactly once and in append order.
C25_EveryLineOnce == lg_op # "off" => LogDelivered

\* C25, for appended lines that hold no line terminator: the same.
C25_EveryWholeLineOnce ==
    (lg_op # "off" /\ \A i \in 1..Len(lg_appended) : WholeLine(lg_appended[i])) => LogDelivered

\* three whole lines appended and all received by the reader, and a call
\* with a positive last_line_id returned lines
C25_Witness ==
    /\ lg_op = "poll" /\ Len(lg_appended) = MaxAppends /\ Len(lg_got) = MaxAppends
    /\ \A i \in 1..Len(lg_appended) : WholeLine(lg_appended[i])
    /\ lg_probe # <<>> /\ lg_probe.last_line_id > 0 /\ lg_probe.chunk # <<>>

\* ------------------------------------------------------------------------
\* Claims about the job store
\* ------------------------------------------------------------------------

\* the jobs of a cache, as a set
JobsOf(jobs) == {jobs[i] : i \in 1..Len(jobs)}

\* cleanup_jobs kept every active job
ActiveKept == \A j \in JobsOf(js_call.jobs) : IsActive(j.status) => j \in JobsOf(js_jobs)

\* no finished job older than max_age_hours is left
NoOldFinishedLeft ==
    \A j \in JobsOf(js_jobs) :
        (~IsActive(j.status) /\ ParseCreatedAt(j.created_at).ok)
            => ParseCreatedAt(j.created_at).instant >= Now - js_call.max_age_hours * 7200

\* at most max(0, max_jobs - active) finished jobs are left
FinishedWithinCapacity ==
    LET active == Cardinality({j \in JobsOf(js_jobs) : IsActive(j.status)})
        finished == Cardinality({j \in JobsOf(js_jobs) : ~IsActive(j.status)})
    IN  finished <= (IF js_call.max_jobs - active > 0 THEN js_call.max_jobs - active ELSE 0)

\* no removed job was created after a finished job that was kept
MostRecentKept ==
    \A k \in JobsOf(js_jobs), r \in JobsOf(js_call.jobs) \ JobsOf(js_jobs) :
        (~IsActive(k.status) /\ ParseCreatedAt(k.created_at).ok /\ ParseCreatedAt(r.created_at).ok)
            => ParseCreatedAt(r.created_at).instant <= ParseCreatedAt(k.created_at).instant

\* the artifacts, their files and the log of every removed job are gone
RemovedWithFiles ==
    \A r \in JobsOf(js_call.jobs) \ JobsOf(js_jobs) :
        /\ <<"log", r.id>> \notin js_files
        /\ \A a \in r.artifact_ids : (\A x \in js_arts : x.id # a) /\ <<"art", a>> \notin js_files

\* C30: cleanup_jobs never removes a job whose status is queued, running or
\* canceling; after it returns no finished job with a parsable created_at
\* older than max_age_hours remains, at most max(0, max_jobs - active)
\* finished jobs remain, the finished jobs kept are the most recently created
\* ones, and every removed job's artifacts and log are removed with it.
C30_CleanupJobs ==
    js_pc = "done" =>
        /\ ActiveKept
        /\ NoOldFinishedLeft
        /\ FinishedWithinCapacity
        /\ MostRecentKept
        /\ RemovedWithFiles

\* ------------------------------------------------------------------------
\* Claims about the redactor
\* ------------------------------------------------------------------------

\* C7: for every text x, redact applied to the text redact(x) returned
\* returns that text unchanged and reports modified = false.
C7_Idempotent ==
    rd_pc = "twice" => rd_out2.text = rd_out.text /\ rd_out2.modified = FALSE

\* a text with an AWS key id and a private key block, both redacted by the
\* first call, and nothing left for the second call to redact
C7_Witness ==
    /\ rd_pc = "twice"
    /\ rd_out.modified
    /\ Sub(rd_in, 3) # rd_in
    /\ Sub(rd_in, 4) # rd_in
    /\ rd_out2 = [text |-> rd_out.text, modified |-> FALSE]

\* C15: in a text where api_key is followed by separators and a value of at
\* least 20 word characters (and the value stands nowhere else in the text),
\* redact keeps the key and the separator characters that stand between key
\* and value, removes the value and reports modified = true.
C15_KeyAndSeparatorKept ==
    rd_pc = "once" =>
        \A i \in 1..Len(rd_in) :
            LET key   == <<"a", "p", "i", "_", "k", "e", "y">>
                seps  == RunLen(rd_in, i + Len(key), "separator")
                q     == IF i + Len(key) + seps <= Len(rd_in) /\ InClass(rd_in[i + Len(key) + seps], "quote")
                         THEN 1 ELSE 0
                from  == i + Len(key) + seps + q
                value == SubSeq(rd_in, from, from + RunLen(rd_in, from, "word_dash") - 1)
                once  == \A j \in 1..Len(rd_in) : j # from => ~LiteralAt(rd_in, j, value, FALSE)
            IN  (LiteralAt(rd_in, i, key, FALSE) /\ seps >= 1 /\ Len(value) >= API_SECRET_MIN /\ once)
                => /\ rd_out.modified
                   /\ ~Contains(rd_out.text, value)
                   /\ Contains(rd_out.text, SubSeq(rd_in, i, from - 1) \o Redacted)


\* ------------------------------------------------------------------------
\* Claims about the command line
\* ------------------------------------------------------------------------

\* run_eval went through its loop and returned
EvalReturned == cli_pc = "exited" /\ cli_in.command = "eval" /\ cli_out.code = <<0>>

C14_JsonOnly ==
    (cli_in.command = "eval" /\ cli_in.emit = "json") =>
        /\ \A n \in 1..Len(cli_out.stdout) : cli_out.stdout[n].kind = "json"
        /\ cli_pc = "exited" =>
              \/ cli_out.code = <<1>> /\ cli_out.stdout = <<>>
              \/ cli_out.code = <<0>> /\ Len(cli_out.stdout) = 1

\* a JSON evaluation of three queries, one of which failed, has returned
C14_Witness ==
    /\ EvalReturned /\ cli_in.emit = "json"
    /\ Len(cli_loc.results_detail) = 3
    /\ cli_loc.results_detail[2].error # <<>>
    /\ cli_out.stdout = <<JsonText(cli_out.stdout[1].doc[1])>>
    /\ cli_out.stdout[1].doc[1].details = cli_loc.results_detail


\* C19: every process of the command line ends with exit code 0 or 1, and
\* every process that ends with 1 has written a message to stderr.
C19_ExitCodes ==
    cli_pc = "exited" =>
        /\ cli_out.code \in {<<0>>, <<1>>}
        /\ cli_out.code = <<1>> => cli_out.stderr # <<>>

\* run_index called build_index and build_index raised
BuildFailed ==
    /\ cli_pc = "exited" /\ cli_in.command = "index"
    /\ \E n \in 1..Len(cli_out.stdout) : cli_out.stdout[n] = TextLine("Building index")
    /\ b_ret # "returned"

C18_NonFatalWarning ==
    st_pc = "done" =>
        LET named == st_in.suffix \in {".chunk_index.index.sqlite", ".index.sqlite"}
            pairs == {p \in (DOMAIN st_dir) \X (DOMAIN st_dir) :
                         /\ st_dir[p[1]].derived.present /\ st_dir[p[2]].dump.present
                         /\ \/ p = <<st_in.base, st_in.base>>
                            \/ /\ \A b \in DOMAIN st_dir : st_dir[b].derived.present => b = p[1]
                               /\ \A b \in DOMAIN st_dir : st_dir[b].dump.present => b = p[2]}
            stale(p) == LET text == st_dir[p[1]].derived.data[1]
                        IN  /\ text.kind = "object"
                            /\ text.recorded # <<>> /\ text.recorded # <<EmptyText>>
                            /\ text.recorded[1] # ComputeFileSha256(st_dir[p[2]].dump)
        IN  /\ st_out.raised = ""
            /\ st_out.stderr # <<>> <=> (named /\ \E p \in pairs : stale(p))

====
